---- MODULE Spec2Model ----
(***************************************************************************)
(* Entry points of llvm-libc as state machines.                            *)
(*                                                                         *)
(* Math: expf, exp2f, the two expm1f implementations and sincosf over the  *)
(* caller's floating-point environment (the rounding mode, errno and the   *)
(* sticky FE_INVALID flag), by a single caller, by a caller comparing two  *)
(* calls, and by two threads; the range reduction of the general path; the *)
(* FPBits<float> view of a bit pattern; the table lookups of the general   *)
(* path.  Then the Linux syscall wrappers pwrite, fchdir, madvise and      *)
(* fchmod, putc, fgets by two threads on one stream, the generic           *)
(* add_with_carry and sub_with_borrow, and IntegerToString.  Each part has *)
(* its own variables and its own specification; the steps of one part      *)
(* leave the variables of the others alone.                                *)
(*                                                                         *)
(* A float is the record [s |-> sign bit, m |-> low 31 bits] of its 32-bit *)
(* encoding, so that uintval() = s * 2^31 + m and every comparison of the  *)
(* source on uint32_t stays exact within the checker's integer range.      *)
(* A result whose bits come out of the table * polynomial product (the     *)
(* tables are not part of the modelled files) is the record with m = -1:   *)
(* a finite, nonzero value whose bits are not modelled.                    *)
(***************************************************************************)
EXTENDS Integers, Sequences, FiniteSets, TLC

VARIABLES
  round,     \* the caller's rounding mode
  errno,     \* the caller's errno
  excepts,   \* the sticky exception flags raised
  last,      \* the call whose result the caller holds
  prevErr,   \* the errno code the call before wrote
  nanPick,   \* the NaN operand this build's float addition propagates
  prev,      \* an earlier call the caller remembers
  tround,    \* two threads: the rounding mode of each thread
  terrno,    \* two threads: the errno of each thread
  tcall,     \* two threads: the call each thread is in
  red,       \* the last range reduction made
  fpb,       \* a bit pattern on its way through FPBits and back
  sys,       \* the syscall wrapper call whose outcome the caller holds
  file,      \* a stdio stream: the bytes written to it and its error state
  put,       \* the last putc call
  strm,      \* the stream that fgets reads
  fg,        \* fgets: the call each thread is in
  awc,       \* the last add_with_carry or sub_with_borrow call
  its,       \* the last IntegerToString::convert call
  idx        \* the table lookups of the last call on its general path

mathVars == <<round, errno, excepts, last, prevErr, nanPick, prev>>
threadVars == <<tround, terrno, tcall>>

reduceVars == <<red>>
bitsVars == <<fpb>>
sysVars == <<sys>>
stdioVars == <<file, put>>
fgetsVars == <<strm, fg>>
carryVars == <<awc>>
convertVars == <<its>>
indexVars == <<idx>>

vars == <<mathVars, threadVars, reduceVars, bitsVars, sysVars, stdioVars, fgetsVars, carryVars, convertVars, indexVars>>

\* what the steps of one part of the model leave alone
notMath == <<threadVars, reduceVars, bitsVars, sysVars, stdioVars, fgetsVars, carryVars, convertVars, indexVars>>
notThread == <<mathVars, reduceVars, bitsVars, sysVars, stdioVars, fgetsVars, carryVars, convertVars, indexVars>>
notReduce == <<threadVars, bitsVars, sysVars, stdioVars, fgetsVars, carryVars, convertVars, indexVars>>
notBits == <<mathVars, threadVars, reduceVars, sysVars, stdioVars, fgetsVars, carryVars, convertVars, indexVars>>
notSys == <<threadVars, reduceVars, bitsVars, stdioVars, fgetsVars, carryVars, convertVars, indexVars>>
notStdio == <<mathVars, threadVars, reduceVars, bitsVars, sysVars, fgetsVars, carryVars, convertVars, indexVars>>
notFgets == <<mathVars, threadVars, reduceVars, bitsVars, sysVars, stdioVars, carryVars, convertVars, indexVars>>
notCarry ==
  <<mathVars, threadVars, reduceVars, bitsVars, sysVars, stdioVars, fgetsVars, convertVars, indexVars>>
notConvert ==
  <<mathVars, threadVars, reduceVars, bitsVars, sysVars, stdioVars, fgetsVars, carryVars, indexVars>>
notIndex ==
  <<mathVars, threadVars, reduceVars, bitsVars, sysVars, stdioVars, fgetsVars, carryVars, convertVars>>

----------------------------------------------------------------------------
(* Environment constants *)

EDOM == 33
ERANGE == 34

FE_TONEAREST == "FE_TONEAREST"
FE_UPWARD == "FE_UPWARD"
FE_DOWNWARD == "FE_DOWNWARD"
FE_TOWARDZERO == "FE_TOWARDZERO"
RoundingModes == {FE_TONEAREST, FE_UPWARD, FE_DOWNWARD, FE_TOWARDZERO}

FE_INVALID == "FE_INVALID"

----------------------------------------------------------------------------
(* FPBits<float>: the bit view of a float *)

F(sgn, mag) == [s |-> sgn, m |-> mag]

\* a result of the table * polynomial path: finite, nonzero, bits not modelled
Approx(sgn) == [s |-> sgn, m |-> -1]

TwoPow23 == \H800000

MAX_NORMAL == F(0, \H7f7fffff)
MIN_SUBNORMAL == F(0, \H00000001)
PosInf == F(0, \H7f800000)
PosZero == F(0, 0)
NegZero == F(1, 0)
One == F(0, \H3f800000)

\* x_abs = uintval() & 0x7fffffff
x_abs(x) == x.m

get_sign(x) == x.s = 1

\* the raw (biased) exponent field: expm1f.cpp compares it with 102 and 123
\* for |x| < 2^-25 and |x| < 2^-4
get_unbiased_exponent(x) == x.m \div TwoPow23

is_inf(x) == x.m = \H7f800000

is_nan(x) == x.m > \H7f800000

\* unsigned comparisons of uintval() with a 32-bit literal (cs, cm)
UGe(x, cs, cm) == x.s > cs \/ (x.s = cs /\ x.m >= cm)

ULt(x, cs, cm) == ~UGe(x, cs, cm)

UEq(x, cs, cm) == x.s = cs /\ x.m = cm

is_quiet_nan(x) == is_nan(x) /\ (x.m \div \H400000) % 2 = 1

is_signaling_nan(x) == is_nan(x) /\ ~is_quiet_nan(x)

\* FPBits::build_nan(1 << (MantissaWidth - 1))
build_nan == F(0, \H7fc00000)

\* the NaN an arithmetic operation delivers for a NaN operand: quiet bit set
Quiet(x) == F(x.s, x.m + (IF is_quiet_nan(x) THEN 0 ELSE \H400000))

\* unary minus on a float: flips the sign bit
Neg(x) == F(1 - x.s, x.m)

\* uint32_t s += inc, modulo 2^32
AddU32(x, inc) ==
  IF x.m <= \H7fffffff - inc THEN F(x.s, x.m + inc)
  ELSE F(1 - x.s, x.m - (\H7fffffff - inc) - 1)

----------------------------------------------------------------------------
(* Float arithmetic of the special paths, by IEEE-754 under rounding mode r *)

\* 1.0f + x for |x| < 2^-25: the exact sum lies strictly between the two
\* neighbours of 1.0f (or is 1.0f itself when x is a zero)
OnePlusX(x, r) ==
  IF x.m = 0 THEN One
  ELSE IF x.s = 0
       THEN (IF r = FE_UPWARD THEN F(0, \H3f800001) ELSE One)
       ELSE (IF r \in {FE_DOWNWARD, FE_TOWARDZERO} THEN F(0, \H3f7fffff) ELSE One)

\* x + static_cast<float>(FPBits::inf()): value and whether FE_INVALID is raised
AddInf(x) ==
  IF is_nan(x) THEN [v |-> Quiet(x), inv |-> is_signaling_nan(x)]
  ELSE IF UEq(x, 1, \H7f800000) THEN [v |-> F(1, \H7fc00000), inv |-> TRUE]
  ELSE [v |-> PosInf, inv |-> FALSE]

\* x + build_nan(...): a NaN x is propagated or replaced by the other NaN
\* operand, as the hardware addition chooses (pick = 1: first operand)
AddNaN(x, pick) ==
  IF is_nan(x)
  THEN [v |-> IF pick = 1 THEN Quiet(x) ELSE build_nan, inv |-> is_signaling_nan(x)]
  ELSE [v |-> build_nan, inv |-> FALSE]

\* fma(x, x, x) for |x| < 2^-25: x + x^2 with 0 < x^2 < ulp(x)/2
Fma_x_x_x(x, r) ==
  IF x.m = 0
  THEN (IF x.s = 1 /\ r # FE_DOWNWARD THEN PosZero ELSE x)
  ELSE IF x.s = 0
       THEN (IF r = FE_UPWARD THEN F(0, x.m + 1) ELSE x)
       ELSE (IF r \in {FE_UPWARD, FE_TOWARDZERO} THEN F(1, x.m - 1) ELSE x)

\* the sin computed from |x|, as the cos is
SinTiny_x_abs(x, r) ==
  IF r = FE_TOWARDZERO \/ r = FE_DOWNWARD
  THEN F(0, x.m - 1)
  ELSE F(0, x.m)

\* multiply_add(x, -0x1.0p-25f, x) for 0 < |x| < 2^-12: x - x * 2^-25
SinTiny(x, r) ==
  IF r = FE_TOWARDZERO \/ (r = FE_UPWARD /\ x.s = 1) \/ (r = FE_DOWNWARD /\ x.s = 0)
  THEN F(x.s, x.m - 1)
  ELSE x

\* multiply_add(|x|, -0x1.0p-25f, 1.0f) for 0 < |x| < 2^-12
CosTiny(x, r) ==
  IF r \in {FE_TOWARDZERO, FE_DOWNWARD} THEN F(0, \H3f7fffff) ELSE One

\* 0x1.108a58p-66f - x * 0x1.0p-95f at x = -0x1.6d7b18p+5f: the exact value
\* lies 0.71 ulp above 0x1.108a58p-66f
ExpfExcept(r) ==
  IF r \in {FE_TONEAREST, FE_UPWARD} THEN F(0, \H1e88452d) ELSE F(0, \H1e88452c)

\* static_cast<float>(exp_hi * exp_mid * exp_lo) with the product ~ e^x:
\* above 2^128 from x = 0x42b17218 on, in (2^-150, 2^-149) for
\* 0xc2ce8ed0 <= x_u <= 0xc2cff1b4, below 2^-150 beyond
ExpfCast(x, r) ==
  IF x.s = 0 /\ x.m >= \H42b17218
  THEN (IF r \in {FE_TONEAREST, FE_UPWARD} THEN PosInf ELSE MAX_NORMAL)
  ELSE IF x.s = 1 /\ x.m >= \H42cff1b5
  THEN (IF r = FE_UPWARD THEN MIN_SUBNORMAL ELSE PosZero)
  ELSE IF x.s = 1 /\ x.m >= \H42ce8ed0
  THEN (IF r \in {FE_DOWNWARD, FE_TOWARDZERO} THEN PosZero ELSE MIN_SUBNORMAL)
  ELSE Approx(0)

\* static_cast<float>(fma(exp_hi_mid, exp_lo, -1.0)) with the value ~ e^x - 1
Expm1fCast(x, r) ==
  IF x.s = 0 /\ x.m >= \H42b17218
  THEN (IF r \in {FE_TONEAREST, FE_UPWARD} THEN PosInf ELSE MAX_NORMAL)
  ELSE Approx(x.s)

\* static_cast<float>(exp_hi_mid * exp_lo) with the product ~ 2^x: exact at
\* x = -149, in (2^-150, 2^-149) for -150 < x < -149, finite below x = 128
Exp2fCast(x, r) ==
  IF x.s = 1 /\ x.m >= \H43160000
  THEN (IF r = FE_UPWARD THEN MIN_SUBNORMAL ELSE PosZero)
  ELSE IF x.s = 1 /\ x.m > \H43150000
  THEN (IF r \in {FE_DOWNWARD, FE_TOWARDZERO} THEN PosZero ELSE MIN_SUBNORMAL)
  ELSE IF x.s = 1 /\ x.m = \H43150000 THEN MIN_SUBNORMAL
  ELSE Approx(0)

----------------------------------------------------------------------------
(* What one call delivers: the value(s) stored or returned, the errno code  *)
(* it writes (0: errno is not written), whether it raises FE_INVALID, the   *)
(* path it returns from and the checks it evaluated, in order.              *)

None == [s |-> 0, m |-> -2]

Out(res, err, inv, path, trace) ==
  [res |-> res, res2 |-> None, err |-> err, inv |-> inv, path |-> path, trace |-> trace]

Out2(sin, cos, err, inv, path, trace) ==
  [res |-> sin, res2 |-> cos, err |-> err, inv |-> inv, path |-> path, trace |-> trace]

\* The trace of a call names the class of each comparison it evaluates, in
\* evaluation order: "except" (exact bit pattern), "boundary" (the overflow
\* and underflow thresholds), "tiny", "inf" (is_inf, finiteness), "nan",
\* and "general" for the entry into range reduction.

\* expf.cpp:42-53, the body of  if (xbits.uintval() >= 0xc2cff1b5U)
expf_underflow(x, r, t) ==
  IF is_inf(x) THEN Out(PosZero, 0, FALSE, "inf", t \o <<"inf">>)
  ELSE IF is_nan(x) THEN Out(x, 0, FALSE, "nan", t \o <<"inf", "nan">>)
  ELSE IF r = FE_UPWARD
  THEN Out(MIN_SUBNORMAL, 0, FALSE, "underflow", t \o <<"inf", "nan">>)
  ELSE Out(PosZero, ERANGE, FALSE, "underflow", t \o <<"inf", "nan">>)

\* a rounding test that clamps under FE_UPWARD instead of FE_TOWARDZERO
expf_overflow_wrong_mode(x, r, t) ==
  IF ULt(x, 0, \H7f800000)
  THEN IF r = FE_DOWNWARD \/ r = FE_UPWARD
       THEN Out(MAX_NORMAL, 0, FALSE, "overflow", t \o <<"inf">>)
       ELSE Out(AddInf(x).v, ERANGE, AddInf(x).inv, "overflow", t \o <<"inf">>)
  ELSE Out(AddInf(x).v, 0, AddInf(x).inv,
           IF is_nan(x) THEN "nan" ELSE "inf", t \o <<"inf">>)

\* expf.cpp:55-66, the body of  if (!xbits.get_sign() && uintval() >= 0x42b20000)
expf_overflow(x, r, t) ==
  IF ULt(x, 0, \H7f800000)
  THEN IF r = FE_DOWNWARD \/ r = FE_TOWARDZERO
       THEN Out(MAX_NORMAL, 0, FALSE, "overflow", t \o <<"inf">>)
       ELSE Out(AddInf(x).v, ERANGE, AddInf(x).inv, "overflow", t \o <<"inf">>)
  ELSE Out(AddInf(x).v, 0, AddInf(x).inv,
           IF is_nan(x) THEN "nan" ELSE "inf", t \o <<"inf">>)

\* src/math/generic/expf.cpp
expf(x, r) ==
  IF UEq(x, 1, \H4236bd8c)
  THEN Out(ExpfExcept(r), 0, FALSE, "except", <<"except">>)
  ELSE IF x_abs(x) >= \H42b20000 \/ x_abs(x) <= \H32800000
  THEN LET t0 == IF x_abs(x) >= \H42b20000
                 THEN <<"except", "boundary", "tiny">>
                 ELSE <<"except", "boundary", "tiny", "tiny">>
       IN
       IF get_unbiased_exponent(x) <= 101
       THEN Out(OnePlusX(x, r), 0, FALSE, "tiny", t0)
       ELSE IF UGe(x, 1, \H42cff1b5)
       THEN expf_underflow(x, r, t0 \o <<"boundary">>)
       ELSE IF ~get_sign(x) /\ UGe(x, 0, \H42b20000)
       THEN expf_overflow(x, r, t0 \o <<"boundary", "boundary">>)
       ELSE Out(ExpfCast(x, r), 0, FALSE, "general",
                t0 \o <<"boundary", "boundary", "general">>)
  ELSE Out(ExpfCast(x, r), 0, FALSE, "general",
           <<"except", "boundary", "tiny", "general">>)

\* the FE_UPWARD alternative of case 0x3ca66e26 dropped
exp2f_switch_nearest_only(x, r) ==
  IF UEq(x, 0, \H3b429d37)
  THEN (IF r = FE_TONEAREST THEN F(0, \H3f804385) ELSE None)
  ELSE IF UEq(x, 0, \H3c02a9ad)
  THEN (IF r = FE_TONEAREST THEN F(0, \H3f80b5a3) ELSE None)
  ELSE IF UEq(x, 0, \H3ca66e26)
  THEN (IF r = FE_TONEAREST THEN F(0, \H3f81d0b5) ELSE F(0, \H3f81d0b4))
  ELSE IF UEq(x, 0, \H3d92a282)
  THEN (IF r = FE_UPWARD THEN F(0, \H3f868344) ELSE F(0, \H3f868343))
  ELSE IF UEq(x, 1, \H3cf3a937)
  THEN (IF r = FE_TONEAREST THEN F(0, \H3f7ac6b1) ELSE None)
  ELSE IF UEq(x, 1, \H38d3d026)
  THEN (IF r = FE_TONEAREST THEN F(0, \H3f7ffb69) ELSE None)
  ELSE None

\* exp2f.cpp:57-85, the switch on the exceptional bit patterns; None stands
\* for a case that breaks out of the switch, and for no case at all
exp2f_switch(x, r) ==
  IF UEq(x, 0, \H3b429d37)
  THEN (IF r = FE_TONEAREST THEN F(0, \H3f804385) ELSE None)
  ELSE IF UEq(x, 0, \H3c02a9ad)
  THEN (IF r = FE_TONEAREST THEN F(0, \H3f80b5a3) ELSE None)
  ELSE IF UEq(x, 0, \H3ca66e26)
  THEN (IF r = FE_TONEAREST \/ r = FE_UPWARD
        THEN F(0, \H3f81d0b5) ELSE F(0, \H3f81d0b4))
  ELSE IF UEq(x, 0, \H3d92a282)
  THEN (IF r = FE_UPWARD THEN F(0, \H3f868344) ELSE F(0, \H3f868343))
  ELSE IF UEq(x, 1, \H3cf3a937)
  THEN (IF r = FE_TONEAREST THEN F(0, \H3f7ac6b1) ELSE None)
  ELSE IF UEq(x, 1, \H38d3d026)
  THEN (IF r = FE_TONEAREST THEN F(0, \H3f7ffb69) ELSE None)
  ELSE None

\* errno assigned only when the caller's errno is still clear
exp2f_overflow_errno_once(x, r, t) ==
  IF ULt(x, 0, \H7f800000)
  THEN IF r = FE_DOWNWARD \/ r = FE_TOWARDZERO
       THEN Out(MAX_NORMAL, 0, FALSE, "overflow", t \o <<"inf">>)
       ELSE Out(AddInf(x).v, IF errno = 0 THEN ERANGE ELSE 0, AddInf(x).inv,
                "overflow", t \o <<"inf">>)
  ELSE Out(AddInf(x).v, 0, AddInf(x).inv,
           IF is_nan(x) THEN "nan" ELSE "inf", t \o <<"inf">>)

\* exp2f.cpp:95-104, the body of  if (!xbits.get_sign())
exp2f_overflow(x, r, t) ==
  IF ULt(x, 0, \H7f800000)
  THEN IF r = FE_DOWNWARD \/ r = FE_TOWARDZERO
       THEN Out(MAX_NORMAL, 0, FALSE, "overflow", t \o <<"inf">>)
       ELSE Out(AddInf(x).v, ERANGE, AddInf(x).inv, "overflow", t \o <<"inf">>)
  ELSE Out(AddInf(x).v, 0, AddInf(x).inv,
           IF is_nan(x) THEN "nan" ELSE "inf", t \o <<"inf">>)

\* errno set before the rounding mode is looked at
exp2f_underflow_errno_first(x, r, t) ==
  IF is_inf(x) THEN Out(PosZero, 0, FALSE, "inf", t \o <<"inf">>)
  ELSE IF is_nan(x) THEN Out(x, 0, FALSE, "nan", t \o <<"inf", "nan">>)
  ELSE IF r = FE_UPWARD
  THEN Out(MIN_SUBNORMAL, ERANGE, FALSE, "underflow", t \o <<"inf", "nan">>)
  ELSE Out(PosZero, ERANGE, FALSE, "underflow", t \o <<"inf", "nan">>)

\* exp2f.cpp:108-118, the body of  if (x_u >= 0xc3160000U)
exp2f_underflow(x, r, t) ==
  IF is_inf(x) THEN Out(PosZero, 0, FALSE, "inf", t \o <<"inf">>)
  ELSE IF is_nan(x) THEN Out(x, 0, FALSE, "nan", t \o <<"inf", "nan">>)
  ELSE IF r = FE_UPWARD
  THEN Out(MIN_SUBNORMAL, 0, FALSE, "underflow", t \o <<"inf", "nan">>)
  ELSE Out(PosZero, IF x.m # 0 THEN ERANGE ELSE 0, FALSE, "underflow",
           t \o <<"inf", "nan">>)

\* src/math/generic/exp2f.cpp
exp2f(x, r) ==
  IF exp2f_switch(x, r) # None
  THEN Out(exp2f_switch(x, r), 0, FALSE, "except", <<"except">>)
  ELSE IF x_abs(x) >= \H43000000 \/ x_abs(x) <= \H32800000
  THEN LET t0 == IF x_abs(x) >= \H43000000
                 THEN <<"except", "boundary", "tiny">>
                 ELSE <<"except", "boundary", "tiny", "tiny">>
       IN
       IF x_abs(x) <= \H32800000
       THEN Out(OnePlusX(x, r), 0, FALSE, "tiny", t0)
       ELSE IF ~get_sign(x)
       THEN exp2f_overflow(x, r, t0 \o <<"boundary">>)
       ELSE IF UGe(x, 1, \H43160000)
       THEN exp2f_underflow(x, r, t0 \o <<"boundary", "boundary">>)
       ELSE Out(Exp2fCast(x, r), 0, FALSE, "general",
                t0 \o <<"boundary", "boundary", "general">>)
  ELSE Out(Exp2fCast(x, r), 0, FALSE, "general",
           <<"except", "boundary", "tiny", "general">>)

NegOne == F(1, \H3f800000)

\* expm1f.cpp:29-38: x < log(2^-25), infinite or NaN
expm1f_large_negative(x, r, t) ==
  IF is_inf(x) THEN Out(NegOne, 0, FALSE, "inf", t \o <<"inf">>)
  ELSE IF is_nan(x) THEN Out(x, 0, FALSE, "nan", t \o <<"inf", "nan">>)
  ELSE IF r = FE_UPWARD \/ r = FE_TOWARDZERO
  THEN Out(F(1, \H3f7fffff), 0, FALSE, "large_negative", t \o <<"inf", "nan">>)
  ELSE Out(NegOne, 0, FALSE, "large_negative", t \o <<"inf", "nan">>)

\* expm1f.cpp:42-49: x >= 89, infinite or NaN
expm1f_overflow(x, r, t) ==
  IF ULt(x, 0, \H7f800000)
  THEN IF r = FE_DOWNWARD \/ r = FE_TOWARDZERO
       THEN Out(MAX_NORMAL, 0, FALSE, "overflow", t \o <<"inf">>)
       ELSE Out(AddInf(x).v, ERANGE, AddInf(x).inv, "overflow", t \o <<"inf">>)
  ELSE Out(AddInf(x).v, 0, AddInf(x).inv,
           IF is_nan(x) THEN "nan" ELSE "inf", t \o <<"inf">>)

\* the test for x = -0.0f left out
expm1f_tiny_no_zero_test(x, r, t) ==
  Out(Fma_x_x_x(x, r), 0, FALSE, "tiny", t)

\* expm1f.cpp:57-68: |x| < 2^-25
expm1f_tiny(x, r, t) ==
  IF UEq(x, 1, 0)
  THEN Out(x, 0, FALSE, "negzero", t \o <<"tiny">>)
  ELSE Out(Fma_x_x_x(x, r), 0, FALSE, "tiny", t \o <<"tiny">>)

\* src/math/generic/expm1f.cpp
expm1f(x, r) ==
  IF UGe(x, 1, \H418aa123)
  THEN expm1f_large_negative(x, r, <<"boundary">>)
  ELSE IF ~get_sign(x) /\ UGe(x, 0, \H42b20000)
  THEN expm1f_overflow(x, r, <<"boundary", "boundary">>)
  ELSE IF get_unbiased_exponent(x) < 123
  THEN IF get_unbiased_exponent(x) < 102
       THEN expm1f_tiny(x, r, <<"boundary", "boundary", "tiny", "tiny">>)
       ELSE Out(Approx(x.s), 0, FALSE, "small",
                <<"boundary", "boundary", "tiny", "tiny">>)
  ELSE IF UEq(x, 1, \H3dc1c6cb)
  THEN IF r = FE_TONEAREST \/ r = FE_DOWNWARD
       THEN Out(F(1, \H3db8e442), 0, FALSE, "except",
                <<"boundary", "boundary", "tiny", "except">>)
       ELSE Out(F(1, \H3db8e441), 0, FALSE, "except",
                <<"boundary", "boundary", "tiny", "except">>)
  ELSE Out(Expm1fCast(x, r), 0, FALSE, "general",
           <<"boundary", "boundary", "tiny", "except", "general">>)

\* the rounding mode looked at before the infinity test
expm1f_part_005_large_negative_mode_first(x, r, t) ==
  IF is_nan(x) THEN Out(x, 0, FALSE, "nan", t \o <<"inf", "nan">>)
  ELSE IF r = FE_UPWARD \/ r = FE_TOWARDZERO
  THEN Out(F(1, \H3f7fffff), 0, FALSE,
           IF is_inf(x) THEN "inf" ELSE "large_negative", t \o <<"inf", "nan">>)
  ELSE Out(NegOne, 0, FALSE,
           IF is_inf(x) THEN "inf" ELSE "large_negative", t \o <<"inf", "nan">>)

\* part_005:41-50: x < log(2^-25), infinite or NaN
expm1f_part_005_large_negative(x, r, t) ==
  IF is_inf(x) THEN Out(NegOne, 0, FALSE, "inf", t \o <<"inf">>)
  ELSE IF is_nan(x) THEN Out(x, 0, FALSE, "nan", t \o <<"inf", "nan">>)
  ELSE IF r = FE_UPWARD \/ r = FE_TOWARDZERO
  THEN Out(F(1, \H3f7fffff), 0, FALSE, "large_negative", t \o <<"inf", "nan">>)
  ELSE Out(NegOne, 0, FALSE, "large_negative", t \o <<"inf", "nan">>)

\* part_005:53-62: x >= 89, infinite or NaN
expm1f_part_005_overflow(x, r, t) ==
  IF ULt(x, 0, \H7f800000)
  THEN IF r = FE_DOWNWARD \/ r = FE_TOWARDZERO
       THEN Out(MAX_NORMAL, 0, FALSE, "overflow", t \o <<"inf">>)
       ELSE Out(AddInf(x).v, ERANGE, AddInf(x).inv, "overflow", t \o <<"inf">>)
  ELSE Out(AddInf(x).v, 0, AddInf(x).inv,
           IF is_nan(x) THEN "nan" ELSE "inf", t \o <<"inf">>)

\* part_005:70-86 with the test for x = -0.0f left out
expm1f_part_005_tiny_no_zero_test(x, r, t) ==
  Out(Fma_x_x_x(x, r), 0, FALSE, "tiny", t \o <<"tiny">>)

\* part_005:70-86: |x| < 2^-25
expm1f_part_005_tiny(x, r, t) ==
  IF UEq(x, 1, 0)
  THEN Out(x, 0, FALSE, "negzero", t \o <<"tiny">>)
  ELSE Out(Fma_x_x_x(x, r), 0, FALSE, "tiny", t \o <<"tiny">>)

\* src/unnamed/part_005: the other expm1f
expm1f_part_005(x, r) ==
  IF UEq(x, 0, \H3e35bec5)
  THEN IF r = FE_TONEAREST \/ r = FE_UPWARD
       THEN Out(F(0, \H3e46df32), 0, FALSE, "except", <<"except">>)
       ELSE Out(F(0, \H3e46df31), 0, FALSE, "except", <<"except">>)
  ELSE IF x_abs(x) >= \H418aa123 /\ get_sign(x)
  THEN expm1f_part_005_large_negative(x, r, <<"except", "boundary", "boundary">>)
  ELSE IF x_abs(x) >= \H418aa123 /\ UGe(x, 0, \H42b20000)
  THEN expm1f_part_005_overflow(x, r,
                                <<"except", "boundary", "boundary", "boundary">>)
  ELSE LET t0 == IF x_abs(x) >= \H418aa123
                 THEN <<"except", "boundary", "boundary", "boundary", "tiny">>
                 ELSE <<"except", "boundary", "tiny">>
       IN
       IF x_abs(x) < \H3d800000
       THEN IF x_abs(x) < \H33000000
            THEN expm1f_part_005_tiny(x, r, t0 \o <<"tiny">>)
            ELSE Out(Approx(x.s), 0, FALSE, "small", t0 \o <<"tiny">>)
       ELSE Out(Expm1fCast(x, r), 0, FALSE, "general", t0 \o <<"general">>)

\* src/unnamed/part_004: the exceptional values of sincosf
N_EXCEPTS == 10

EXCEPT_INPUTS ==
  << \H3b5637f5, \H3fa7832a, \H46199998, \H55325019, \H55cafb2a,
     \H5922aa80, \H5aa4542c, \H5f18b878, \H6115cb11, \H7beef5ef >>

\* <<value under FE_TOWARDZERO, increments for up, down, nearest>>
EXCEPT_OUTPUTS_SIN ==
  << <<F(0, \H3b5637dc), 1, 0, 0>>, <<F(0, \H3f7741b5), 1, 0, 1>>,
     <<F(1, \H3eb1fa5d), 0, 1, 0>>, <<F(1, \H3f171adf), 0, 1, 1>>,
     <<F(1, \H3f7e7a16), 0, 1, 1>>, <<F(1, \H3f587521), 0, 1, 1>>,
     <<F(0, \H3f5f5646), 1, 0, 0>>, <<F(0, \H3dad60f6), 1, 0, 1>>,
     <<F(1, \H3e7cc1e0), 0, 1, 1>>, <<F(1, \H3f587d1b), 0, 1, 1>> >>

EXCEPT_OUTPUTS_COS ==
  << <<F(0, \H3f7fffa6), 1, 0, 0>>, <<F(0, \H3e84aabf), 1, 0, 1>>,
     <<F(1, \H3f70090b), 0, 1, 0>>, <<F(0, \H3f4ea5d2), 1, 0, 0>>,
     <<F(0, \H3ddf11f3), 1, 0, 1>>, <<F(0, \H3f08aebe), 1, 0, 1>>,
     <<F(0, \H3efa40a4), 1, 0, 0>>, <<F(0, \H3f7f14bb), 1, 0, 0>>,
     <<F(0, \H3f78142e), 1, 0, 1>>, <<F(0, \H3f08a21c), 1, 0, 0>> >>

\* a loop that stops one entry short
FindExcept_one_short(xa) ==
  LET M == {i \in 1..(N_EXCEPTS - 1) : xa = EXCEPT_INPUTS[i]}
  IN IF M = {} THEN 0 ELSE CHOOSE i \in M : \A j \in M : i <= j

\* part_004:171-172,  for (int i = 0; i < N_EXCEPTS; ++i)
\*                      if (x_abs == EXCEPT_INPUTS[i]):
\* the first index that matches (1-based), 0 when the loop ends without one
FindExcept(xa) ==
  LET M == {i \in 1..N_EXCEPTS : xa = EXCEPT_INPUTS[i]}
  IN IF M = {} THEN 0 ELSE CHOOSE i \in M : \A j \in M : i <= j

\* the sin increments of FE_UPWARD and FE_DOWNWARD not swapped for x < 0
sincosf_except_no_swap(x, r, i) ==
  LET s0 == EXCEPT_OUTPUTS_SIN[i][1]
      c0 == EXCEPT_OUTPUTS_COS[i][1]
      x_sign == x.s = 1
      s == IF r = FE_UPWARD THEN AddU32(s0, EXCEPT_OUTPUTS_SIN[i][2])
           ELSE IF r = FE_DOWNWARD THEN AddU32(s0, EXCEPT_OUTPUTS_SIN[i][3])
           ELSE IF r = FE_TONEAREST THEN AddU32(s0, EXCEPT_OUTPUTS_SIN[i][4])
           ELSE s0
      c == IF r = FE_UPWARD THEN AddU32(c0, EXCEPT_OUTPUTS_COS[i][2])
           ELSE IF r = FE_DOWNWARD THEN AddU32(c0, EXCEPT_OUTPUTS_COS[i][3])
           ELSE IF r = FE_TONEAREST THEN AddU32(c0, EXCEPT_OUTPUTS_COS[i][4])
           ELSE c0
  IN Out2(IF x_sign THEN Neg(s) ELSE s, c, 0, FALSE, "except",
          <<"tiny", "nan", "except">>)

\* part_004:173-193, the body of the loop at a matching index i (1-based;
\* column 1 is the FE_TOWARDZERO value, columns 2..4 the increments)
sincosf_except(x, r, i) ==
  LET s0 == EXCEPT_OUTPUTS_SIN[i][1]
      c0 == EXCEPT_OUTPUTS_COS[i][1]
      x_sign == x.s = 1
      s == IF r = FE_UPWARD
           THEN AddU32(s0, IF x_sign THEN EXCEPT_OUTPUTS_SIN[i][3]
                                     ELSE EXCEPT_OUTPUTS_SIN[i][2])
           ELSE IF r = FE_DOWNWARD
           THEN AddU32(s0, IF x_sign THEN EXCEPT_OUTPUTS_SIN[i][2]
                                     ELSE EXCEPT_OUTPUTS_SIN[i][3])
           ELSE IF r = FE_TONEAREST
           THEN AddU32(s0, EXCEPT_OUTPUTS_SIN[i][4])
           ELSE s0
      c == IF r = FE_UPWARD THEN AddU32(c0, EXCEPT_OUTPUTS_COS[i][2])
           ELSE IF r = FE_DOWNWARD THEN AddU32(c0, EXCEPT_OUTPUTS_COS[i][3])
           ELSE IF r = FE_TONEAREST THEN AddU32(c0, EXCEPT_OUTPUTS_COS[i][4])
           ELSE c0
  IN Out2(IF x_sign THEN Neg(s) ELSE s, c, 0, FALSE, "except",
          <<"tiny", "nan", "except">>)

\* the assignment errno = EDOM left out
sincosf_inf_nan_no_errno(x, pick) ==
  IF x_abs(x) = \H7f800000
  THEN Out2(AddNaN(x, pick).v, AddNaN(x, pick).v, 0, TRUE, "inf",
            <<"tiny", "nan", "inf">>)
  ELSE Out2(AddNaN(x, pick).v, AddNaN(x, pick).v, 0, AddNaN(x, pick).inv,
            "nan", <<"tiny", "nan", "inf">>)

\* part_004:159-168, x is inf or nan.  pick: which NaN operand the addition
\* x + build_nan propagates
sincosf_inf_nan(x, pick) ==
  IF x_abs(x) = \H7f800000
  THEN Out2(AddNaN(x, pick).v, AddNaN(x, pick).v, EDOM, TRUE, "inf",
            <<"tiny", "nan", "inf">>)
  ELSE Out2(AddNaN(x, pick).v, AddNaN(x, pick).v, 0, AddNaN(x, pick).inv,
            "nan", <<"tiny", "nan", "inf">>)

\* src/unnamed/part_004.  The values of the general path come out of
\* sincosf_eval: neither bits nor sign are modelled (s = 2).
sincosf(x, r, pick) ==
  IF x_abs(x) < \H39800000
  THEN IF x_abs(x) = 0
       THEN Out2(x, One, 0, FALSE, "zero", <<"tiny", "tiny">>)
       ELSE Out2(SinTiny(x, r), CosTiny(x, r), 0, FALSE, "tiny", <<"tiny", "tiny">>)
  ELSE IF x_abs(x) >= \H7f800000
  THEN sincosf_inf_nan(x, pick)
  ELSE IF FindExcept(x_abs(x)) # 0
  THEN sincosf_except(x, r, FindExcept(x_abs(x)))
  ELSE Out2(Approx(2), Approx(2), 0, FALSE, "general",
            <<"tiny", "nan", "except", "general">>)

----------------------------------------------------------------------------
(* The caller's environment and the calls *)

\* both signs of every magnitude of ms
Signed(ms) == {F(sg, mg) : sg \in {0, 1}, mg \in ms}

\* zeros, subnormals, the NaNs and infinities every entry point is fed
CommonMags ==
  { 0, \H00000001, \H007fffff, \H00800000, \H3f800000, \H7f7fffff,
    \H7f800000, \H7f800001, \H7fa00000, \H7fc00000, \H7fc00001, \H7fffffff }

\* around |x| = 2^-26 and 2^-25
TinyMags == { \H327fffff, \H32800000, \H32800001, \H32c00000, \H32ffffff, \H33000000 }

ExpfInputs ==
  Signed(CommonMags \cup TinyMags \cup
         { \H4236bd8c, \H42b17217, \H42b17218, \H42b1ffff, \H42b20000, \H42b20001,
           \H42ce8ecf, \H42ce8ed0, \H42cff1b4, \H42cff1b5, \H42d00000 })

Exp2fInputs ==
  Signed(CommonMags \cup TinyMags \cup
         { \H3b429d37, \H3c02a9ad, \H3ca66e26, \H3d92a282, \H3cf3a937, \H38d3d026,
           \H42ffffff, \H43000000, \H43000001, \H43150000, \H43150001,
           \H4315ffff, \H43160000, \H43160001 })

Expm1fInputs ==
  Signed(CommonMags \cup TinyMags \cup
         { \H3d7fffff, \H3d800000, \H3dc1c6cb, \H3e35bec5, \H418aa122, \H418aa123,
           \H42b17217, \H42b17218, \H42b1ffff, \H42b20000 })

SincosfInputs ==
  Signed(CommonMags \cup { \H397fffff, \H39800000, \H3b5637f4, \H7beef5f0 }
         \cup { EXCEPT_INPUTS[i] : i \in 1..N_EXCEPTS })

ErrnoValues == {0, EDOM, ERANGE}

\* the caller holds no result
NoCall ==
  [fn |-> "none", x |-> PosZero, round |-> FE_TONEAREST, errnoBefore |-> 0,
   exceptsBefore |-> {}, out |-> Out(None, 0, FALSE, "none", <<>>)]

\* the caller remembers no call
NoPair ==
  [fn |-> "none", x |-> PosZero, round |-> FE_TONEAREST,
   out |-> Out(None, 0, FALSE, "none", <<>>)]

\* thread start: round-to-nearest, no flag raised, errno clear; which NaN
\* operand an addition of two NaNs propagates is fixed by the build
MathInit ==
  /\ round = FE_TONEAREST
  /\ errno = 0
  /\ excepts = {}
  /\ last = NoCall
  /\ prevErr = 0
  /\ nanPick \in {1, 2}
  /\ prev = NoPair

\* Call with the errno write made unconditional: a call that reports no error
\* stores 0
Call_errno_reset(fn, x, out) ==
  /\ last = NoCall
  /\ last' = [fn |-> fn, x |-> x, round |-> round, errnoBefore |-> errno,
              exceptsBefore |-> excepts, out |-> out]
  /\ errno' = out.err
  /\ excepts' = IF out.inv THEN excepts \cup {FE_INVALID} ELSE excepts
  /\ UNCHANGED <<round, prevErr, nanPick, prev, notMath>>

\* one call of an entry point with result record out, made by a caller that
\* holds no result: errno is assigned only when the call writes it,
\* FE_INVALID is sticky, the rounding mode is kept
Call(fn, x, out) ==
  /\ last = NoCall
  /\ last' = [fn |-> fn, x |-> x, round |-> round, errnoBefore |-> errno,
              exceptsBefore |-> excepts, out |-> out]
  /\ errno' = IF out.err # 0 THEN out.err ELSE errno
  /\ excepts' = IF out.inv THEN excepts \cup {FE_INVALID} ELSE excepts
  /\ UNCHANGED <<round, prevErr, nanPick, prev, notMath>>

Call_expf == \E x \in ExpfInputs : Call("expf", x, expf(x, round))

Call_exp2f == \E x \in Exp2fInputs : Call("exp2f", x, exp2f(x, round))

Call_expm1f == \E x \in Expm1fInputs : Call("expm1f", x, expm1f(x, round))

Call_expm1f_part_005 ==
  \E x \in Expm1fInputs : Call("expm1f_part_005", x, expm1f_part_005(x, round))

Call_sincosf ==
  \E x \in SincosfInputs : Call("sincosf", x, sincosf(x, round, nanPick))

\* the caller has read the result and goes on; prevErr remembers the errno
\* code that call wrote
Resume ==
  /\ last # NoCall
  /\ prevErr' = last.out.err
  /\ last' = NoCall
  /\ UNCHANGED <<round, errno, excepts, nanPick, prev, notMath>>

\* the caller changes its rounding mode
fesetround(r) ==
  /\ last = NoCall
  /\ round' = r
  /\ UNCHANGED <<errno, excepts, last, prevErr, nanPick, prev, notMath>>

\* the caller assigns errno (errno = 0 before a call, as the tests do)
SetErrno(v) ==
  /\ last = NoCall
  /\ errno' = v
  /\ UNCHANGED <<round, excepts, last, prevErr, nanPick, prev, notMath>>

\* the caller clears the sticky exception flags
feclearexcept ==
  /\ last = NoCall
  /\ excepts' = {}
  /\ UNCHANGED <<round, errno, last, prevErr, nanPick, prev, notMath>>

Next ==
  \/ Call_expf
  \/ Call_exp2f
  \/ Call_expm1f
  \/ Call_expm1f_part_005
  \/ Call_sincosf
  \/ Resume
  \/ \E r \in RoundingModes : fesetround(r)
  \/ \E v \in ErrnoValues : SetErrno(v)
  \/ feclearexcept

----------------------------------------------------------------------------
(* Pairs of calls: the caller keeps an earlier call and compares a later   *)
(* one with it.  The inputs are one or two per path of each entry point;   *)
(* sincosf is fed no input of its general path, whose values come out of   *)
(* sincosf_eval and are not modelled.                                      *)

PairExpfInputs ==
  { F(0, \H3f800000), F(0, \H42b20000), F(1, \H42d00000), F(0, \H7f800001) }

PairExp2fInputs ==
  { F(0, \H3ca66e26), F(0, \H43000000), F(1, \H43160000), F(0, \H7f800001) }

PairExpm1fInputs ==
  { F(1, 0), F(1, \H3dc1c6cb), F(0, \H42b20000), F(0, \H7f800001) }

PairExpm1fInputs_part_005 ==
  { F(0, \H32800000), F(0, \H3e35bec5), F(0, \H42b20000), F(1, \H7f800000) }

PairSincosfInputs ==
  Signed({ 0, \H00000001, \H397fffff, EXCEPT_INPUTS[1], \H7f800000 })
    \cup { F(0, \H7f800001) }

PairCall_expf == \E x \in PairExpfInputs : Call("expf", x, expf(x, round))

PairCall_exp2f == \E x \in PairExp2fInputs : Call("exp2f", x, exp2f(x, round))

PairCall_expm1f == \E x \in PairExpm1fInputs : Call("expm1f", x, expm1f(x, round))

PairCall_expm1f_part_005 ==
  \E x \in PairExpm1fInputs_part_005 :
    Call("expm1f_part_005", x, expm1f_part_005(x, round))

PairCall_sincosf ==
  \E x \in PairSincosfInputs : Call("sincosf", x, sincosf(x, round, nanPick))

\* the caller keeps the call it holds (entry point, input, rounding mode,
\* results and writes) and goes on
Remember ==
  /\ last # NoCall
  /\ prev' = [fn |-> last.fn, x |-> last.x, round |-> last.round,
              out |-> last.out]
  /\ prevErr' = last.out.err
  /\ last' = NoCall
  /\ UNCHANGED <<round, errno, excepts, nanPick, notMath>>

PairNext ==
  \/ PairCall_expf
  \/ PairCall_exp2f
  \/ PairCall_expm1f
  \/ PairCall_expm1f_part_005
  \/ PairCall_sincosf
  \/ Remember
  \/ Resume
  \/ \E r \in RoundingModes : fesetround(r)
  \/ \E v \in ErrnoValues : SetErrno(v)
  \/ feclearexcept

----------------------------------------------------------------------------
(* Two threads calling entry points concurrently.  errno and the rounding  *)
(* mode are per thread: errno is the thread-local errno of the library,    *)
(* get_round() reads the floating-point control register of the calling    *)
(* thread.  A call is three steps of its thread: entering with x, reading  *)
(* the rounding mode and computing, storing errno and returning.           *)

Threads == {1, 2}

ThreadExpfInputs == { F(0, \H3f800000), F(0, \H42b20000) }

ThreadSincosfInputs == { F(0, \H7f800000), F(1, EXCEPT_INPUTS[1]) }

\* fputil::get_round() called by thread t
get_round(t) == tround[t]

\* one errno for the whole process
errno_store_process_global(t, code) == [u \in Threads |-> code]

\* errno = code executed by thread t
errno_store(t, code) == [terrno EXCEPT ![t] = code]

\* thread t is in no call
NoThreadCall ==
  [pc |-> "idle", fn |-> "none", x |-> PosZero, errnoBefore |-> 0,
   out |-> Out(None, 0, FALSE, "none", <<>>)]

ThreadInit ==
  /\ tround = [t \in Threads |-> FE_TONEAREST]
  /\ terrno = [t \in Threads |-> 0]
  /\ tcall = [t \in Threads |-> NoThreadCall]

\* thread t enters fn(x)
T_Enter(t, fn, x) ==
  /\ tcall[t].pc = "idle"
  /\ tcall' = [tcall EXCEPT ![t] = [pc |-> "entered", fn |-> fn, x |-> x,
                                    errnoBefore |-> terrno[t],
                                    out |-> NoThreadCall.out]]
  /\ UNCHANGED <<tround, terrno, notThread>>

T_Enter_expf(t) == \E x \in ThreadExpfInputs : T_Enter(t, "expf", x)

T_Enter_sincosf(t) == \E x \in ThreadSincosfInputs : T_Enter(t, "sincosf", x)

\* thread t reads its rounding mode and computes
T_Compute(t) ==
  /\ tcall[t].pc = "entered"
  /\ tcall' = [tcall EXCEPT
                 ![t].pc = "computed",
                 ![t].out = IF tcall[t].fn = "expf"
                            THEN expf(tcall[t].x, get_round(t))
                            ELSE sincosf(tcall[t].x, get_round(t), nanPick)]
  /\ UNCHANGED <<tround, terrno, notThread>>

\* thread t stores errno, if the path it took does, and returns
T_Return(t) ==
  /\ tcall[t].pc = "computed"
  /\ terrno' = IF tcall[t].out.err # 0
               THEN errno_store(t, tcall[t].out.err)
               ELSE terrno
  /\ tcall' = [tcall EXCEPT ![t].pc = "returned"]
  /\ UNCHANGED <<tround, notThread>>

\* thread t has read its result and its errno
T_Resume(t) ==
  /\ tcall[t].pc = "returned"
  /\ tcall' = [tcall EXCEPT ![t] = NoThreadCall]
  /\ UNCHANGED <<tround, terrno, notThread>>

\* thread t changes its rounding mode
T_fesetround(t, r) ==
  /\ tcall[t].pc = "idle"
  /\ tround' = [tround EXCEPT ![t] = r]
  /\ UNCHANGED <<terrno, tcall, notThread>>

\* thread t clears its errno
T_SetErrno(t) ==
  /\ tcall[t].pc = "idle"
  /\ terrno' = errno_store(t, 0)
  /\ UNCHANGED <<tround, tcall, notThread>>

ThreadNext ==
  \E t \in Threads :
    \/ T_Enter_expf(t)
    \/ T_Enter_sincosf(t)
    \/ T_Compute(t)
    \/ T_Return(t)
    \/ T_Resume(t)
    \/ \E r \in RoundingModes : T_fesetround(t, r)
    \/ T_SetErrno(t)

----------------------------------------------------------------------------
(* Range reduction of the general path.  A float of this part is an        *)
(* integer count of units of 2^-26 of the scaled input x * 2^k (k = 7 for  *)
(* expf and expm1f, k = 6 for exp2f): 0.5 is 2^25 units and the scaling by *)
(* the power of two 2^k is exact, so the float operations of the source    *)
(* round these counts as they round the floats.                            *)

Half == 33554432
Unit == 67108864

Abs(v) == IF v < 0 THEN -v ELSE v

\* the spacing of the floats around magnitude a (24-bit significand)
Ulp(a) ==
  IF a < 16777216 THEN 1
  ELSE IF a < 33554432 THEN 2
  ELSE IF a < 67108864 THEN 4
  ELSE IF a < 134217728 THEN 8
  ELSE IF a < 268435456 THEN 16
  ELSE IF a < 536870912 THEN 32
  ELSE IF a < 1073741824 THEN 64
  ELSE 128

\* the float result of an operation whose exact value is v, under rounding
\* mode r
RoundFloat(v, r) ==
  LET a == Abs(v)
      u == Ulp(a)
      down == a - (a % u)
      up == IF a % u = 0 THEN a ELSE down + u
      near == IF 2 * (a % u) < u THEN down
              ELSE IF 2 * (a % u) > u THEN up
              ELSE IF (down \div u) % 2 = 0 THEN down ELSE up
      mag == CASE r = FE_TONEAREST -> near
               [] r = FE_TOWARDZERO -> down
               [] r = FE_UPWARD -> IF v < 0 THEN down ELSE up
               [] r = FE_DOWNWARD -> IF v < 0 THEN up ELSE down
  IN IF v < 0 THEN -mag ELSE mag

\* static_cast<int>(t): conversion toward zero
ToInt(t) == IF t < 0 THEN -((-t) \div Unit) ELSE t \div Unit

\* expf.cpp:86-89, exp2f.cpp:139-152, part_005:117-120:
\*   x_hi = static_cast<int>(x * 2^k + (sign ? -0.5f : 0.5f));
\*   x -= static_cast<float>(x_hi) * 2^-k;  xd = static_cast<double>(x);
ReduceBiased(y, neg, r) ==
  LET t == RoundFloat(y + (IF neg THEN -Half ELSE Half), r)
      x_hi == ToInt(t)
      lo == RoundFloat(y - x_hi * Unit, r)
  IN [x_hi |-> x_hi, xd |-> lo]

\* expm1f.cpp:107-120: conversion toward zero, then the two explicit tests
\* on the float x, each adjusting x_hi and the double xd
ReduceTruncFix(y, neg, r) ==
  LET x_hi == ToInt(y)
      lo == RoundFloat(y - x_hi * Unit, r)
      up == lo >= Half
      dn == lo < -Half
  IN [x_hi |-> x_hi + (IF up THEN 1 ELSE 0) - (IF dn THEN 1 ELSE 0),
      xd |-> lo - (IF up THEN Unit ELSE 0) + (IF dn THEN Unit ELSE 0)]

\* scaled inputs x * 2^k of the general path of expf and exp2f: around the
\* half-integers 0.5, 1.5 and 2.5, and small ones for which adding the 0.5
\* is inexact
ReduceMags == { 129, Half - 2, Half, Half + 4, Unit, Unit + Half - 8,
                Unit + Half, Unit + Half + 8, 2 * Unit + Half }

\* scaled inputs x * 2^7 of the general path of expm1f (|x| >= 2^-4):
\* around 8.5 and 9.5
ReduceMagsExpm1f == { 8 * Unit + Half - 64, 8 * Unit + Half, 8 * Unit + Half + 64,
                      9 * Unit, 9 * Unit + Half - 64, 9 * Unit + Half }

NoReduce == [fn |-> "none", y |-> 0, round |-> FE_TONEAREST, x_hi |-> 0, xd |-> 0]

ReduceInit == red = NoReduce

\* the range reduction of fn at scaled input y under the ambient rounding mode
Reduce(fn, y, out) ==
  /\ red' = [fn |-> fn, y |-> y, round |-> round, x_hi |-> out.x_hi, xd |-> out.xd]
  /\ UNCHANGED <<mathVars, notReduce>>

Reduce_expf ==
  \E a \in ReduceMags, neg \in BOOLEAN :
    LET y == IF neg THEN -a ELSE a
    IN Reduce("expf", y, ReduceBiased(y, neg, round))

Reduce_exp2f ==
  \E a \in ReduceMags, neg \in BOOLEAN :
    LET y == IF neg THEN -a ELSE a
    IN Reduce("exp2f", y, ReduceBiased(y, neg, round))

Reduce_expm1f ==
  \E a \in ReduceMagsExpm1f, neg \in BOOLEAN :
    LET y == IF neg THEN -a ELSE a
    IN Reduce("expm1f", y, ReduceTruncFix(y, neg, round))

Reduce_expm1f_part_005 ==
  \E a \in ReduceMagsExpm1f, neg \in BOOLEAN :
    LET y == IF neg THEN -a ELSE a
    IN Reduce("expm1f_part_005", y, ReduceBiased(y, neg, round))

\* the caller changes the rounding mode between two reductions
ReduceSetRound == \E r \in RoundingModes : fesetround(r) /\ UNCHANGED red

ReduceNext ==
  \/ Reduce_expf
  \/ Reduce_exp2f
  \/ Reduce_expm1f
  \/ Reduce_expm1f_part_005
  \/ ReduceSetRound

----------------------------------------------------------------------------
(* FPBits<float> as a view of 32 bits: one sign bit, eight exponent bits,  *)
(* twenty-three mantissa bits.  A float value is the triple of its fields. *)

\* a mantissa field one bit short
get_mantissa_22_bits(x) == x.m % \H400000

\* FPBits::get_mantissa(): the low 23 bits
get_mantissa(x) == x.m % TwoPow23

\* FPBits(b).get_val(): the float the bits encode
get_val(b) ==
  [sign |-> get_sign(b), exponent |-> get_unbiased_exponent(b),
   mantissa |-> get_mantissa(b)]

\* FPBits(v).uintval(): the bits of a float
uintval(v) == F(IF v.sign THEN 1 ELSE 0, v.exponent * TwoPow23 + v.mantissa)

\* bit patterns: zeros, subnormals, normals, infinities, quiet and signaling
\* NaNs with several payloads, of either sign
BitPatterns ==
  Signed({ 0, \H00000001, \H00400000, \H007fffff, \H00800000, \H00800001,
           \H00ffffff, \H3f7fffff, \H3f800000, \H3fffffff, \H40000000,
           \H7f000000, \H7f7fffff, \H7f800000, \H7f800001, \H7fa00000,
           \H7fbfffff, \H7fc00000, \H7fc00001, \H7fffffff })

NoBits == [pc |-> "none", b |-> PosZero, val |-> get_val(PosZero), bits |-> PosZero]

BitsInit == fpb = NoBits

\* FPBits<float> xbits(b)
FPBits_construct ==
  /\ fpb.pc \in {"none", "viewed"}
  /\ \E b \in BitPatterns : fpb' = [NoBits EXCEPT !.pc = "built", !.b = b]
  /\ UNCHANGED notBits

\* float v = xbits.get_val()
FPBits_get_val ==
  /\ fpb.pc = "built"
  /\ fpb' = [fpb EXCEPT !.pc = "float", !.val = get_val(fpb.b)]
  /\ UNCHANGED notBits

\* FPBits<float>(v).uintval()
FPBits_uintval ==
  /\ fpb.pc = "float"
  /\ fpb' = [fpb EXCEPT !.pc = "viewed", !.bits = uintval(fpb.val)]
  /\ UNCHANGED notBits

BitsNext ==
  \/ FPBits_construct
  \/ FPBits_get_val
  \/ FPBits_uintval

----------------------------------------------------------------------------
(* Linux syscall wrappers.  The kernel's answer to the raw syscall is the  *)
(* environment's choice: a negated error number, or 0 (a byte count for    *)
(* pwrite) on success.  A wrapper's outcome is its return value and the    *)
(* errno it assigns (err = 0: errno is not assigned).                      *)

\* src/unistd/linux/pwrite.cpp:19-27
pwrite(ret) ==
  IF ret < 0 THEN [ret |-> -1, err |-> -ret] ELSE [ret |-> ret, err |-> 0]

\* src/unistd/linux/pwrite.cpp:49-56
fchdir(ret) ==
  IF ret < 0 THEN [ret |-> -1, err |-> -ret] ELSE [ret |-> 0, err |-> 0]

\* errno = ret_val, the negation forgotten
madvise_errno_not_negated(ret_val) ==
  IF ret_val < 0 THEN [ret |-> -1, err |-> ret_val] ELSE [ret |-> 0, err |-> 0]

\* src/unnamed/part_011:21-33
madvise(ret_val) ==
  IF ret_val < 0 THEN [ret |-> -1, err |-> -ret_val] ELSE [ret |-> 0, err |-> 0]

\* src/unnamed/part_012:21-28
fchmod(ret) ==
  IF ret < 0 THEN [ret |-> -1, err |-> -ret] ELSE [ret |-> 0, err |-> 0]

\* what the kernel answers: -EPERM, -EBADF, -ENOMEM, -EINVAL, -ERANGE, the
\* largest error number, or success
KernelErrors == { -1, -9, -12, -22, -34, -4095 }
KernelResults == KernelErrors \cup {0}
KernelResultsPwrite == KernelErrors \cup {0, 1, 8, 4096}

NoSys == [fn |-> "none", raw |-> 0, ret |-> 0, err |-> 0, errnoBefore |-> 0]

SysInit == sys = NoSys

\* one call of wrapper fn, the kernel answering raw
SysCall(fn, raw, out) ==
  /\ sys = NoSys
  /\ sys' = [fn |-> fn, raw |-> raw, ret |-> out.ret, err |-> out.err,
             errnoBefore |-> errno]
  /\ errno' = IF out.err # 0 THEN out.err ELSE errno
  /\ UNCHANGED <<round, excepts, last, prevErr, nanPick, prev, notSys>>

Call_pwrite == \E raw \in KernelResultsPwrite : SysCall("pwrite", raw, pwrite(raw))

Call_fchdir == \E raw \in KernelResults : SysCall("fchdir", raw, fchdir(raw))

Call_madvise == \E raw \in KernelResults : SysCall("madvise", raw, madvise(raw))

Call_fchmod == \E raw \in KernelResults : SysCall("fchmod", raw, fchmod(raw))

\* the caller has looked at the return value and errno
SysResume ==
  /\ sys # NoSys
  /\ sys' = NoSys
  /\ UNCHANGED <<mathVars, notSys>>

\* errno = 0 before the next call, as the tests do
SysSetErrno ==
  /\ sys = NoSys
  /\ SetErrno(0)

SysNext ==
  \/ Call_pwrite
  \/ Call_fchdir
  \/ Call_madvise
  \/ Call_fchmod
  \/ SysResume
  \/ SysSetErrno

----------------------------------------------------------------------------
(* stdio: putc on a stream.  File::write stores the byte and answers 1, or *)
(* fails, answers 0 and leaves the stream in its error state.              *)

EOF == -1

\* the bytes a stream keeps in this model
MaxStream == 3

\* static_cast<unsigned char>(c)
ToUChar(c) == c % 256

\* File::write(&uc, 1) on stream f, succeeding (ok) or not
File_write(f, uc, ok) ==
  IF ok /\ ~f.err
  THEN [stream |-> [f EXCEPT !.data = Append(f.data, uc)], written |-> 1]
  ELSE [stream |-> [f EXCEPT !.err = TRUE], written |-> 0]

\* src/stdio/putc.cpp:16-24, given what the write answered
putc(c, written) == IF 1 # written THEN EOF ELSE 0

\* the values of c: a letter, NUL, a newline, 0xff, EOF itself and a value
\* above UCHAR_MAX
PutcChars == { 65, 0, 10, 255, -1, 321 }

NoPutc == [fn |-> "none", c |-> 0, written |-> 0, ret |-> 0]

StdioInit ==
  /\ file = [data |-> <<>>, err |-> FALSE]
  /\ put = NoPutc

\* putc(c, stream)
Call_putc ==
  /\ Len(file.data) < MaxStream
  /\ \E c \in PutcChars, ok \in BOOLEAN :
       LET w == File_write(file, ToUChar(c), ok)
       IN /\ file' = w.stream
          /\ put' = [fn |-> "putc", c |-> c, written |-> w.written,
                     ret |-> putc(c, w.written)]
  /\ UNCHANGED notStdio

\* clearerr(stream)
File_clearerr ==
  /\ file.err
  /\ file' = [file EXCEPT !.err = FALSE]
  /\ UNCHANGED <<put, notStdio>>

StdioNext ==
  \/ Call_putc
  \/ File_clearerr

----------------------------------------------------------------------------
(* stdio: fgets by two threads on one stream.  The stream is the bytes of  *)
(* its file, the read position, the error and end-of-file indicators       *)
(* (set by a read, cleared by none of the steps here) and the thread that  *)
(* holds its lock (0: nobody).  A call is the steps of its thread between  *)
(* which another thread may run: entering, File::lock, one step per turn   *)
(* of the read loop, sampling the indicators, File::unlock and returning.  *)

NEWLINE == 10

\* the largest count passed to fgets
MaxCount == 3

FgetsThreads == {1, 2}

\* the files read: empty, an empty line, lines of one and two letters, no
\* newline at all, and a newline first
FileContents ==
  { <<>>, <<NEWLINE>>, <<97, NEWLINE>>, <<97, 98, NEWLINE>>, <<97, 98, 99>>,
    <<NEWLINE, 97, NEWLINE>> }

\* a cell of str that the call has not written
Unwritten == -1

NoStream ==
  [open |-> FALSE, data |-> <<>>, pos |-> 0, err |-> FALSE, eof |-> FALSE,
   owner |-> 0]

\* File::read_unlocked(&c, 1): the next byte and 1, or 0 with the end-of-file
\* indicator set at the end of the file, or 0 with the error indicator set
\* when the platform's read fails (ok = FALSE)
File_read_unlocked(f, ok) ==
  IF ~ok THEN [stream |-> [f EXCEPT !.err = TRUE], r |-> 0, c |-> 0]
  ELSE IF f.pos >= Len(f.data)
  THEN [stream |-> [f EXCEPT !.eof = TRUE], r |-> 0, c |-> 0]
  ELSE [stream |-> [f EXCEPT !.pos = f.pos + 1], r |-> 1,
        c |-> f.data[f.pos + 1]]

\* File::error_unlocked()
File_error_unlocked(f) == f.err

\* File::iseof_unlocked()
File_iseof_unlocked(f) == f.eof

\* the read loop without its test of the byte read
fgets_loop_past_newline(i, count, c) == i < (count - 1)

\* the condition of the read loop
fgets_loop(i, count, c) == i < (count - 1) /\ c # NEWLINE

\* the test without the i == 0 of its end-of-file half
fgets_fails_at_any_eof(has_error, has_eof, i) == has_error \/ has_eof

\* the test after the lock is released: TRUE when fgets returns nullptr
fgets_fails(has_error, has_eof, i) == has_error \/ (i = 0 /\ has_eof)

\* a thread that is in no call: str is the caller's buffer, of which the
\* cells 0..count-1 belong to the call
NoFgets ==
  [pc |-> "idle", count |-> 0, str |-> [k \in 0..(MaxCount + 1) |-> Unwritten],
   i |-> 0, c |-> 0, has_error |-> FALSE, has_eof |-> FALSE, ret |-> "none",
   start |-> 0, locks |-> 0, unlocks |-> 0, reads |-> 0, held |-> TRUE,
   own_error |-> FALSE, own_eof |-> FALSE]

FgetsInit ==
  /\ strm = NoStream
  /\ fg = [t \in FgetsThreads |-> NoFgets]

\* fopen of one of the files, for reading
File_open ==
  /\ ~strm.open
  /\ \E d \in FileContents : strm' = [NoStream EXCEPT !.open = TRUE, !.data = d]
  /\ UNCHANGED <<fg, notFgets>>

\* fgets(str, count, stream) is called: with count < 1 it returns at once
fgets_enter(t) ==
  /\ strm.open
  /\ fg[t].pc = "idle"
  /\ \E count \in -1..MaxCount :
       fg' = [fg EXCEPT ![t] =
                IF count < 1
                THEN [NoFgets EXCEPT !.pc = "done", !.count = count,
                                     !.ret = "nullptr"]
                ELSE [NoFgets EXCEPT !.pc = "lock", !.count = count]]
  /\ UNCHANGED <<strm, notFgets>>

\* the call goes on to its reads without the lock
fgets_lock_not_taken(t) ==
  /\ fg[t].pc = "lock"
  /\ fg' = [fg EXCEPT ![t] = [@ EXCEPT !.pc = "loop", !.start = strm.pos]]
  /\ UNCHANGED <<strm, notFgets>>

\* stream->lock(): waits until nobody holds the lock
fgets_lock(t) ==
  /\ fg[t].pc = "lock"
  /\ strm.owner = 0
  /\ strm' = [strm EXCEPT !.owner = t]
  /\ fg' = [fg EXCEPT ![t] = [@ EXCEPT !.pc = "loop", !.locks = @ + 1,
                                        !.start = strm.pos]]
  /\ UNCHANGED notFgets

\* one turn of the read loop, or leaving it
fgets_read(t) ==
  /\ fg[t].pc = "loop"
  /\ IF fgets_loop(fg[t].i, fg[t].count, fg[t].c)
     THEN \E ok \in BOOLEAN :
            LET rd == File_read_unlocked(strm, ok)
                me == [fg[t] EXCEPT !.reads = @ + 1,
                                    !.held = @ /\ strm.owner = t,
                                    !.own_error = @ \/ rd.stream.err # strm.err,
                                    !.own_eof = @ \/ rd.stream.eof # strm.eof]
            IN /\ strm' = rd.stream
               /\ fg' = [fg EXCEPT ![t] =
                           IF rd.r # 1
                           THEN [me EXCEPT !.pc = "sample"]
                           ELSE [me EXCEPT !.c = rd.c,
                                           !.str = [@ EXCEPT ![me.i] = rd.c],
                                           !.i = @ + 1]]
     ELSE /\ fg' = [fg EXCEPT ![t] = [@ EXCEPT !.pc = "sample"]]
          /\ UNCHANGED strm
  /\ UNCHANGED notFgets

\* has_error and has_eof are read from the stream
fgets_sample(t) ==
  /\ fg[t].pc = "sample"
  /\ fg' = [fg EXCEPT ![t] =
              [@ EXCEPT !.pc = "unlock",
                        !.held = @ /\ strm.owner = t,
                        !.has_error = File_error_unlocked(strm),
                        !.has_eof = File_iseof_unlocked(strm)]]
  /\ UNCHANGED <<strm, notFgets>>

\* stream->unlock(), then the test and the return
fgets_unlock(t) ==
  /\ fg[t].pc = "unlock"
  /\ strm' = [strm EXCEPT !.owner = IF @ = t THEN 0 ELSE @]
  /\ fg' = [fg EXCEPT ![t] =
              IF fgets_fails(fg[t].has_error, fg[t].has_eof, fg[t].i)
              THEN [@ EXCEPT !.pc = "done", !.unlocks = @ + 1,
                             !.ret = "nullptr"]
              ELSE [@ EXCEPT !.pc = "done", !.unlocks = @ + 1,
                             !.str = [@ EXCEPT ![fg[t].i] = 0],
                             !.ret = "str"]]
  /\ UNCHANGED notFgets

\* the caller has looked at the result
fgets_resume(t) ==
  /\ fg[t].pc = "done"
  /\ fg' = [fg EXCEPT ![t] = NoFgets]
  /\ UNCHANGED <<strm, notFgets>>

FgetsNext ==
  \/ File_open
  \/ \E t \in FgetsThreads : fgets_enter(t)
  \/ \E t \in FgetsThreads : fgets_lock(t)
  \/ \E t \in FgetsThreads : fgets_read(t)
  \/ \E t \in FgetsThreads : fgets_sample(t)
  \/ \E t \in FgetsThreads : fgets_unlock(t)
  \/ \E t \in FgetsThreads : fgets_resume(t)

----------------------------------------------------------------------------
(* The generic add_with_carry and sub_with_borrow on an unsigned type T of *)
(* w bits.  A value of T is a number in 0..2^w - 1; the operands of + and - *)
(* are promoted and the result is converted back to T on assignment.       *)

\* the widths of T: unsigned char and unsigned short
Widths == {8, 16}

\* conversion to T
ToT(v, w) == v % (2 ^ w)

\* part_008:76-81 with a carry test of the second addition only
add_with_carry_second_addition_only(a, b, carry_in, w) ==
  LET tmp == ToT(a + carry_in, w)
      sum == ToT(b + tmp, w)
  IN [sum |-> sum, carry |-> IF sum < b THEN 1 ELSE 0]

\* part_008:76-81
add_with_carry(a, b, carry_in, w) ==
  LET tmp == ToT(a + carry_in, w)
      sum == ToT(b + tmp, w)
      carry_out == IF (sum < b) \/ (tmp < a) THEN 1 ELSE 0
  IN [sum |-> sum, carry |-> carry_out]

\* part_008:139-144
sub_with_borrow(a, b, borrow_in, w) ==
  LET tmp == ToT(a - b, w)
      diff == ToT(tmp - borrow_in, w)
      borrow_out == IF (diff > tmp) \/ (tmp > a) THEN 1 ELSE 0
  IN [diff |-> diff, borrow |-> borrow_out]

\* the operands: the ends and the middle of the range of T
Operands(w) ==
  { 0, 1, 2 ^ (w - 1) - 1, 2 ^ (w - 1), 2 ^ w - 2, 2 ^ w - 1 }

NoCarry == [fn |-> "none", w |-> 8, a |-> 0, b |-> 0, c_in |-> 0,
            res |-> 0, c_out |-> 0]

CarryInit == awc = NoCarry

Call_add_with_carry ==
  /\ \E w \in Widths : \E a, b \in Operands(w), carry_in \in {0, 1} :
       LET r == add_with_carry(a, b, carry_in, w)
       IN awc' = [fn |-> "add_with_carry", w |-> w, a |-> a, b |-> b,
                  c_in |-> carry_in, res |-> r.sum, c_out |-> r.carry]
  /\ UNCHANGED notCarry

Call_sub_with_borrow ==
  /\ \E w \in Widths : \E a, b \in Operands(w), borrow_in \in {0, 1} :
       LET r == sub_with_borrow(a, b, borrow_in, w)
       IN awc' = [fn |-> "sub_with_borrow", w |-> w, a |-> a, b |-> b,
                  c_in |-> borrow_in, res |-> r.diff, c_out |-> r.borrow]
  /\ UNCHANGED notCarry

CarryNext ==
  \/ Call_add_with_carry
  \/ Call_sub_with_borrow

----------------------------------------------------------------------------
(* IntegerToString.  A uintmax_t or intmax_t (64 bits) is the tuple of its *)
(* four 16-bit limbs, the most significant first; an intmax_t is in two's  *)
(* complement.  The buffer is the sequence of its cells, cell k of the     *)
(* source being the element k + 1; a cell not written holds Unwritten.     *)

Limb == 2 ^ 16

\* uval == 0
IsZero(u) == u = <<0, 0, 0, 0>>

\* val < 0 for an intmax_t
IsNegative(v) == v[1] >= Limb \div 2

\* one limb of a division by a small divisor
DivLimb(acc, limb, d) ==
  LET cur == acc.r * Limb + limb
  IN [q |-> Append(acc.q, cur \div d), r |-> cur % d]

\* uval / conv_base and uval % conv_base
DivMod(u, d) ==
  DivLimb(DivLimb(DivLimb(DivLimb([q |-> <<>>, r |-> 0], u[1], d),
                          u[2], d), u[3], d), u[4], d)

\* one limb of u * d + c
MulLimb(acc, limb, d) ==
  LET cur == limb * d + acc.c
  IN [v |-> <<cur % Limb>> \o acc.v, c |-> cur \div Limb]

\* u * d + c, with the carry out of 64 bits
MulAdd(u, d, c) ==
  MulLimb(MulLimb(MulLimb(MulLimb([v |-> <<>>, c |-> c], u[4], d),
                          u[3], d), u[2], d), u[1], d)

\* the 64 bits of ~v
Not64(v) == [j \in 1..4 |-> Limb - 1 - v[j]]

\* the 64 bits of -v
Neg64(v) == MulAdd(Not64(v), 1, 1).v

\* the k low bits set
LowBits(k) ==
  [j \in 1..4 |->
     LET above == k - 16 * (4 - j)
     IN IF above >= 16 THEN Limb - 1
        ELSE IF above > 0 THEN 2 ^ above - 1 ELSE 0]

\* the integer types T: sizeof(T) and is_signed<T>
IntTypes ==
  { [size |-> n, signed |-> s] : n \in {1, 2, 4, 8}, s \in BOOLEAN }

MaxOf(T) == LowBits(IF T.signed THEN 8 * T.size - 1 ELSE 8 * T.size)

\* the smallest value of a signed T
MinOf(T) == Not64(MaxOf(T))

INTMAX_MIN == <<Limb \div 2, 0, 0, 0>>

\* the values of T converted: 0, 1, the base below and at a digit boundary,
\* the largest, and for a signed T -1, the smallest and its neighbour
ValuesOf(T) ==
  { <<0, 0, 0, 0>>, <<0, 0, 0, 1>>, <<0, 0, 0, 35>>, <<0, 0, 0, 100>>,
    MaxOf(T) }
  \cup IF T.signed
       THEN { Neg64(<<0, 0, 0, 1>>), Neg64(<<0, 0, 0, 36>>),
              Neg64(MaxOf(T)), MinOf(T) }
       ELSE {}

floor_log_2(num) == CHOOSE i \in 0..7 : 2 ^ i <= num /\ num < 2 ^ (i + 1)

\* part_007:112-119 without the byte for the '-' sign
bufsize_unsigned(BASE, T) ==
  LET BITS_PER_DIGIT == floor_log_2(BASE)
      BUFSIZE_COMMON == (T.size * 8 + (BITS_PER_DIGIT - 1)) \div BITS_PER_DIGIT
      BUFSIZE_BASE10 == (T.size * 5 + 1) \div 2
  IN IF BASE = 10 THEN BUFSIZE_BASE10 ELSE BUFSIZE_COMMON

\* part_007:112-119
bufsize(BASE, T) ==
  LET BITS_PER_DIGIT == floor_log_2(BASE)
      BUFSIZE_COMMON == (T.size * 8 + (BITS_PER_DIGIT - 1)) \div BITS_PER_DIGIT
      BUFSIZE_BASE10 == (T.size * 5 + 1) \div 2
  IN (IF T.signed THEN 1 ELSE 0)
     + (IF BASE = 10 THEN BUFSIZE_BASE10 ELSE BUFSIZE_COMMON)

\* buffer[k] = ch; a k outside the buffer is a write out of bounds
Store(b, k, ch) ==
  IF k \in 0..(Len(b.cells) - 1)
  THEN [b EXCEPT !.cells[k + 1] = ch]
  ELSE [b EXCEPT !.oob = TRUE]

\* the loop of convert_uintmax, part_007:58-61: the characters it stores,
\* in the order of its turns
RECURSIVE convert_loop(_, _, _)
convert_loop(uval, a, conv_base) ==
  IF IsZero(uval) THEN <<>>
  ELSE LET dm == DivMod(uval, conv_base)
           digit == dm.r
           ch == IF digit < 10 THEN digit + 48 ELSE digit + a - 10
       IN <<ch>> \o convert_loop(dm.q, a, conv_base)

\* the buffer after the turns of the loop: turn j stores at buffptr - 1,
\* which is size - 1 - j
StoreAll(b, chars) ==
  LET size == Len(b.cells)
  IN [cells |-> [k \in 1..size |->
                   IF size - k < Len(chars) THEN chars[size - k + 1]
                   ELSE b.cells[k]],
      oob |-> b.oob \/ Len(chars) > size]

\* part_007:45-66: the buffer after the call and the view returned
convert_uintmax(uval, b, lowercase, conv_base) ==
  LET a == IF lowercase THEN 97 ELSE 65
      size == Len(b.cells)
      chars == convert_loop(uval, a, conv_base)
      buffptr == IF IsZero(uval) THEN size - 1 ELSE size - Len(chars)
      len == size - buffptr
  IN [some |-> TRUE, trapped |-> FALSE,
      buffer |-> IF IsZero(uval) THEN Store(b, size - 1, 48)
                 ELSE StoreAll(b, chars),
      off |-> size - len, len |-> len]

\* part_007:68-80; -val overflows for the smallest intmax_t, which is
\* undefined: the build negates with wrap-around (ub = "wrap") or traps
convert_intmax(val, b, lowercase, conv_base, ub) ==
  IF ~IsNegative(val) THEN convert_uintmax(val, b, lowercase, conv_base)
  ELSE IF val = INTMAX_MIN /\ ub = "trap"
  THEN [some |-> FALSE, trapped |-> TRUE, buffer |-> b, off |-> 0, len |-> 0]
  ELSE LET uval == Neg64(val)
           str_view == convert_uintmax(uval, b, lowercase, conv_base)
           len == str_view.len + 1
           size == Len(b.cells)
       IN [str_view EXCEPT !.buffer = Store(@, size - len, 45),
                           !.off = size - len, !.len = len]

\* part_007:137-148
convert(BASE, T, val, b, lowercase, ub) ==
  IF Len(b.cells) < bufsize(BASE, T)
  THEN [some |-> FALSE, trapped |-> FALSE, buffer |-> b, off |-> 0, len |-> 0]
  ELSE IF T.signed THEN convert_intmax(val, b, lowercase, BASE, ub)
  ELSE convert_uintmax(val, b, lowercase, BASE)

\* a buffer of n cells, none written
NewBuffer(n) == [cells |-> [k \in 1..n |-> Unwritten], oob |-> FALSE]

\* what a build does on the signed overflow
Overflows == {"wrap", "trap"}

NoConvert ==
  [fn |-> "none", BASE |-> 10, T |-> [size |-> 1, signed |-> FALSE],
   val |-> <<0, 0, 0, 0>>, lowercase |-> TRUE, size |-> 0,
   out |-> [some |-> FALSE, trapped |-> FALSE, buffer |-> NewBuffer(0),
            off |-> 0, len |-> 0]]

ConvertInit == its = NoConvert

\* IntegerToString::convert<BASE>(val, buffer, lowercase) with a buffer one
\* cell short of bufsize<BASE, T>(), of that size, or one cell longer
Call_convert ==
  /\ its = NoConvert
  /\ \E BASE \in 2..36, T \in IntTypes, lowercase \in BOOLEAN,
        slack \in {-1, 0, 1}, ub \in Overflows :
       \E val \in ValuesOf(T) :
         LET size == bufsize(BASE, T) + slack
         IN its' = [fn |-> "convert", BASE |-> BASE, T |-> T, val |-> val,
                    lowercase |-> lowercase, size |-> size,
                    out |-> convert(BASE, T, val, NewBuffer(size), lowercase,
                                    ub)]
  /\ UNCHANGED notConvert

\* the caller is done with the string
ConvertResume ==
  /\ its # NoConvert
  /\ its' = NoConvert
  /\ UNCHANGED notConvert

ConvertNext ==
  \/ Call_convert
  \/ ConvertResume

----------------------------------------------------------------------------
(* The table indices of the general path, from the bits of x.  With e the  *)
(* exponent field and sig the 24-bit significand of a normal x, x * 2^k is *)
(* sig * 2^s for s = e - 150 + k, which is negative on the general path:   *)
(* the floats of the reduction are integer counts of units of 2^s, 1.0 is  *)
(* 2^-s units, and RoundFloat rounds a count to 24 significant bits.       *)

Significand(x) == TwoPow23 + (x.m % TwoPow23)

\* static_cast<int>(x * 2^k + (sign ? -0.5f : 0.5f)), expf.cpp:86,
\* exp2f.cpp:139-140, part_005:118.  For |x * 2^k| < 2^-7 the sum is within
\* 2^-7 of +-0.5 under every rounding mode and converts to 0.
x_hi_biased(x, k, r) ==
  LET s == get_unbiased_exponent(x) - 150 + k
      one == 2 ^ (-s)
      y == IF get_sign(x) THEN -Significand(x) ELSE Significand(x)
      t == RoundFloat(y + (IF get_sign(x) THEN -(one \div 2) ELSE one \div 2), r)
  IN IF -s > 30 THEN 0
     ELSE IF t < 0 THEN -((-t) \div one) ELSE t \div one

\* expm1f.cpp:107-120: static_cast<int>(x * 2^7), lo = x - x_hi * 2^-7
\* (exact: a count below 2^24), then the two tests on lo
x_hi_trunc_fix(x, k, r) ==
  LET s == get_unbiased_exponent(x) - 150 + k
      one == 2 ^ (-s)
      trunc == Significand(x) \div one
      x_hi == IF get_sign(x) THEN -trunc ELSE trunc
      rest == Significand(x) % one
      lo == IF get_sign(x) THEN -rest ELSE rest
  IN x_hi + (IF 2 * lo >= one THEN 1 ELSE 0) - (IF 2 * lo < -one THEN 1 ELSE 0)

\* x_hi += 103 << 7 in place of 104 << 7
EXP_M1_index_bias_103(x_hi) == (x_hi + 103 * 128) \div 128

\* x_hi += 104 << 7; EXP_M1[x_hi >> 7]
EXP_M1_index(x_hi) == (x_hi + 104 * 128) \div 128

\* EXP_M2[x_hi & 0x7f] after x_hi += 104 << 7
EXP_M2_index(x_hi) == (x_hi + 104 * 128) % 128

\* e_hi = (x_hi >> 6) + EXPONENT_BIAS of double, exp2f.cpp:144-145
e_hi(x_hi) == (x_hi \div 64) + 1023

\* EXP_M[x_hi & 0x3f], exp2f.cpp:150
EXP_M_index(x_hi) == x_hi % 64

\* more inputs of the general paths: 2^-7, 1.5, 8, 32, 64 and 100
IndexMags == { \H3c000000, \H3fc00000, \H41000000, \H42000000, \H42800000,
               \H42c80000 }

NoIndex == [fn |-> "none", x |-> PosZero, round |-> FE_TONEAREST,
            general |-> FALSE, x_hi |-> 0, hi |-> 0, mid |-> 0]

IndexInit == idx = NoIndex

\* a call of fn with x: when it takes the general path, the reduction gives
\* x_hi and the two lookups are made
Index(fn, x, general, x_hi, hi, mid) ==
  /\ idx' = IF general
            THEN [fn |-> fn, x |-> x, round |-> round, general |-> TRUE,
                  x_hi |-> x_hi, hi |-> hi, mid |-> mid]
            ELSE [NoIndex EXCEPT !.fn = fn, !.x = x, !.round = round]
  /\ UNCHANGED <<mathVars, notIndex>>

Index_expf ==
  \E x \in ExpfInputs \cup Signed(IndexMags) :
    LET x_hi == x_hi_biased(x, 7, round)
    IN Index("expf", x, expf(x, round).path = "general", x_hi,
             EXP_M1_index(x_hi), EXP_M2_index(x_hi))

Index_exp2f ==
  \E x \in Exp2fInputs \cup Signed(IndexMags) :
    LET x_hi == x_hi_biased(x, 6, round)
    IN Index("exp2f", x, exp2f(x, round).path = "general", x_hi,
             e_hi(x_hi), EXP_M_index(x_hi))

Index_expm1f ==
  \E x \in Expm1fInputs \cup Signed(IndexMags) :
    LET x_hi == x_hi_trunc_fix(x, 7, round)
    IN Index("expm1f", x, expm1f(x, round).path = "general", x_hi,
             EXP_M1_index(x_hi), EXP_M2_index(x_hi))

Index_expm1f_part_005 ==
  \E x \in Expm1fInputs \cup Signed(IndexMags) :
    LET x_hi == x_hi_biased(x, 7, round)
    IN Index("expm1f_part_005", x,
             expm1f_part_005(x, round).path = "general", x_hi,
             EXP_M1_index(x_hi), EXP_M2_index(x_hi))

\* the caller changes the rounding mode between two calls
IndexSetRound == \E r \in RoundingModes : fesetround(r) /\ UNCHANGED idx

IndexNext ==
  \/ Index_expf
  \/ Index_exp2f
  \/ Index_expm1f
  \/ Index_expm1f_part_005
  \/ IndexSetRound

----------------------------------------------------------------------------
(* Specifications *)

\* the single caller of the math entry points before its first call, in a
\* build whose additions propagate the first NaN operand
MathIdle ==
  /\ round = FE_TONEAREST
  /\ errno = 0
  /\ excepts = {}
  /\ last = NoCall
  /\ prevErr = 0
  /\ nanPick = 1
  /\ prev = NoPair

\* every part of the model but the single caller of the math entry points
RestInit ==
  /\ ThreadInit /\ ReduceInit /\ BitsInit /\ SysInit /\ StdioInit
  /\ FgetsInit
  /\ CarryInit
  /\ ConvertInit
  /\ IndexInit

Init == MathInit /\ RestInit

Spec == Init /\ [][Next]_vars

SpecPair == Init /\ [][PairNext]_vars

IdleInit == MathIdle /\ RestInit

SpecThreads == IdleInit /\ [][ThreadNext]_vars

SpecReduce == IdleInit /\ [][ReduceNext]_vars

SpecBits == IdleInit /\ [][BitsNext]_vars

SpecSys == IdleInit /\ [][SysNext]_vars

SpecStdio == IdleInit /\ [][StdioNext]_vars

SpecFgets == IdleInit /\ [][FgetsNext]_vars

SpecCarry == IdleInit /\ [][CarryNext]_vars

SpecConvert == IdleInit /\ [][ConvertNext]_vars

SpecIndex == IdleInit /\ [][IndexNext]_vars

----------------------------------------------------------------------------
(* Properties *)

ExpFns == {"expf", "exp2f", "expm1f", "expm1f_part_005"}
MathFns == ExpFns \cup {"sincosf"}

res == last.out.res
res2 == last.out.res2
path == last.out.path
trace == last.out.trace

IsFinite(x) == x.m < \H7f800000

\* the call left errno as it found it
ErrnoKept == last.out.err = 0 /\ errno = last.errnoBefore

\* the call wrote code into errno
ErrnoSet(code) == last.out.err = code /\ errno = code

\* C1: for every NaN input (either sign, quiet or signaling) and every
\* rounding mode, expf, exp2f, both expm1f and sincosf return a quiet NaN
\* (sincosf in both outputs) and neither write errno nor raise a flag.
C1_NaNQuietNoSideEffect ==
  (last.fn \in MathFns /\ is_nan(last.x)) =>
    /\ is_quiet_nan(res)
    /\ (last.fn = "sincosf" => is_quiet_nan(res2))
    /\ ErrnoKept
    /\ ~last.out.inv
    /\ excepts = last.exceptsBefore

\* C2: for x = +inf or -inf sincosf stores NaN in both outputs, sets errno to
\* EDOM and raises FE_INVALID, whatever errno held before the call.
C2_SincosfInfDomainError ==
  (last.fn = "sincosf" /\ is_inf(last.x)) =>
    /\ is_nan(res)
    /\ is_nan(res2)
    /\ ErrnoSet(EDOM)
    /\ FE_INVALID \in excepts

\* a second domain error, after the first one's EDOM was cleared
C2_Witness ==
  /\ last.fn = "sincosf"
  /\ last.x = F(1, \H7f800000)
  /\ prevErr = EDOM
  /\ last.errnoBefore = 0
  /\ errno = EDOM
  /\ is_nan(res)

\* C3: for every finite input and rounding mode, a range error of expf, exp2f
\* or expm1f (the result is +infinity, or expf/exp2f return zero) comes with
\* errno = ERANGE set by that same call.
C3_RangeErrorSetsErrno ==
  ( /\ last.fn \in ExpFns
    /\ IsFinite(last.x)
    /\ \/ res = PosInf
       \/ (last.fn \in {"expf", "exp2f"} /\ res \in {PosZero, NegZero}) )
  => ErrnoSet(ERANGE)

\* the inputs of the overflow branch: finite x >= 89 (x >= 128 for exp2f)
OverflowBranch ==
  /\ last.fn \in ExpFns
  /\ last.x.s = 0
  /\ IsFinite(last.x)
  /\ last.x.m >= (IF last.fn = "exp2f" THEN \H43000000 ELSE \H42b20000)

\* C4: on the overflow branch the result is MAX_NORMAL with errno untouched
\* under FE_DOWNWARD and FE_TOWARDZERO, and +infinity with errno = ERANGE
\* under FE_TONEAREST and FE_UPWARD.
C4_OverflowBranch ==
  OverflowBranch =>
    IF last.round \in {FE_DOWNWARD, FE_TOWARDZERO}
    THEN res = MAX_NORMAL /\ ErrnoKept
    ELSE res = PosInf /\ ErrnoSet(ERANGE)

C4_Witness ==
  /\ OverflowBranch
  /\ last.fn = "expf"
  /\ last.round = FE_TOWARDZERO
  /\ last.errnoBefore = EDOM
  /\ errno = EDOM
  /\ res = MAX_NORMAL

\* the inputs of the underflow branch: finite x < log(2^-150) for expf,
\* finite x <= -150 for exp2f
UnderflowBranch ==
  /\ last.fn \in {"expf", "exp2f"}
  /\ last.x.s = 1
  /\ IsFinite(last.x)
  /\ last.x.m >= (IF last.fn = "exp2f" THEN \H43160000 ELSE \H42cff1b5)

C6_TinyShortCircuit ==
  (last.fn = "expf" /\ last.x.m < \H33000000) =>
    /\ path = "tiny"
    /\ res = OnePlusX(last.x, last.round)
    /\ \A i \in 1..Len(trace) : trace[i] # "general"

\* C7: both expm1f implementations return -0.0f for -0.0f and +0.0f for
\* +0.0f under every rounding mode, without writing errno.
C7_Expm1fSignedZero ==
  (last.fn \in {"expm1f", "expm1f_part_005"} /\ last.x.m = 0) =>
    /\ res = last.x
    /\ ErrnoKept

C7_Witness ==
  /\ last.fn = "expm1f"
  /\ last.x = NegZero
  /\ last.round = FE_TONEAREST
  /\ res = NegZero
  /\ errno = last.errnoBefore

\* the rank of a check class in the order NaN, infinite, tiny, exceptional
\* bit pattern, overflow/underflow boundary, general
Priority(c) ==
  CASE c = "nan" -> 1
    [] c = "inf" -> 2
    [] c = "tiny" -> 3
    [] c = "except" -> 4
    [] c = "boundary" -> 5
    [] c = "general" -> 6

Exp2fAlwaysExcept == {F(0, \H3ca66e26), F(0, \H3d92a282)}
Exp2fNearestExcept ==
  {F(0, \H3b429d37), F(0, \H3c02a9ad), F(1, \H3cf3a937), F(1, \H38d3d026)}

\* the inputs an entry point has a special case for, under rounding mode r
IsSpecialInput(fn, x, r) ==
  \/ is_nan(x)
  \/ is_inf(x)
  \/ /\ fn = "expf"
     /\ \/ x.m <= \H32800000
        \/ x = F(1, \H4236bd8c)
        \/ (x.s = 0 /\ x.m >= \H42b20000)
        \/ (x.s = 1 /\ x.m >= \H42cff1b5)
  \/ /\ fn = "exp2f"
     /\ \/ x.m <= \H32800000
        \/ x \in Exp2fAlwaysExcept
        \/ (x \in Exp2fNearestExcept /\ r = FE_TONEAREST)
        \/ (x.s = 0 /\ x.m >= \H43000000)
        \/ (x.s = 1 /\ x.m >= \H43160000)
  \/ /\ fn \in {"expm1f", "expm1f_part_005"}
     /\ \/ x.m < \H3d800000
        \/ (x.s = 0 /\ x.m >= \H42b20000)
        \/ (x.s = 1 /\ x.m >= \H418aa123)
        \/ (fn = "expm1f" /\ x = F(1, \H3dc1c6cb))
        \/ (fn = "expm1f_part_005" /\ x = F(0, \H3e35bec5))
  \/ /\ fn = "sincosf"
     /\ \/ x.m < \H39800000
        \/ \E i \in 1..N_EXCEPTS : x.m = EXCEPT_INPUTS[i]

C9_AllModesTabulated ==
  (last.fn = "exp2f" /\ last.x \in Exp2fAlwaysExcept \cup Exp2fNearestExcept) =>
    /\ path = "except"
    /\ res.m >= 0

\* C9, amended: 0x3ca66e26 and 0x3d92a282 get a tabulated constant under
\* every rounding mode; 0x3b429d37, 0x3c02a9ad, 0xbcf3a937 and 0xb8d3d026
\* get one under FE_TONEAREST only and run the general path under the other
\* modes; exp2f(0x3b429d37) under FE_TONEAREST is 0x1.00870ap+0f.
C9_Exp2fExceptional ==
  last.fn = "exp2f" =>
    /\ last.x \in Exp2fAlwaysExcept =>
         /\ path = "except"
         /\ trace = <<"except">>
         /\ last.x = F(0, \H3ca66e26) =>
              res = (IF last.round \in {FE_TONEAREST, FE_UPWARD}
                     THEN F(0, \H3f81d0b5) ELSE F(0, \H3f81d0b4))
         /\ last.x = F(0, \H3d92a282) =>
              res = (IF last.round = FE_UPWARD
                     THEN F(0, \H3f868344) ELSE F(0, \H3f868343))
    /\ last.x \in Exp2fNearestExcept =>
         IF last.round = FE_TONEAREST
         THEN /\ path = "except"
              /\ trace = <<"except">>
              /\ res \in {F(0, \H3f804385), F(0, \H3f80b5a3),
                           F(0, \H3f7ac6b1), F(0, \H3f7ffb69)}
              /\ last.x = F(0, \H3b429d37) => res = F(0, \H3f804385)
         ELSE path = "general"

C9_Witness ==
  /\ last.fn = "exp2f"
  /\ last.x = F(0, \H3ca66e26)
  /\ last.round = FE_UPWARD
  /\ res = F(0, \H3f81d0b5)

\* column of the increment sincosf adds for rounding mode r (0: none), with
\* the up and down columns swapped for the sin of a negative x
IncrementColumn(r, swap) ==
  CASE r = FE_TOWARDZERO -> 0
    [] r = FE_TONEAREST -> 4
    [] r = FE_UPWARD -> IF swap THEN 3 ELSE 2
    [] r = FE_DOWNWARD -> IF swap THEN 2 ELSE 3

Tabulated(row, col) == IF col = 0 THEN row[1] ELSE AddU32(row[1], row[col])

\* C10: for each of the ten exceptional inputs, matched by equality against
\* |x|, and each rounding mode, sincosf stores tabulated values without
\* entering sincosf_eval: the toward-zero entry plus the 0/1 increment of the
\* mode (none under FE_TOWARDZERO); for negative x the sin uses the up and
\* down increments swapped and is negated, the cos does not depend on the
\* sign of x.
C10_SincosfExceptional ==
  \A i \in 1..N_EXCEPTS :
    (last.fn = "sincosf" /\ last.x.m = EXCEPT_INPUTS[i]) =>
      LET neg == last.x.s = 1
          sinv == Tabulated(EXCEPT_OUTPUTS_SIN[i], IncrementColumn(last.round, neg))
          cosv == Tabulated(EXCEPT_OUTPUTS_COS[i], IncrementColumn(last.round, FALSE))
      IN /\ path = "except"
         /\ \A k \in 1..Len(trace) : trace[k] # "general"
         /\ res = (IF neg THEN Neg(sinv) ELSE sinv)
         /\ res2 = cosv
         /\ ErrnoKept

\* sincosf(-0x1.4f0654p0) under FE_UPWARD: sin is the negated toward-zero
\* entry (the down increment is 0), cos the toward-zero entry plus one
C10_Witness ==
  /\ last.fn = "sincosf"
  /\ last.x = F(1, \H3fa7832a)
  /\ last.round = FE_UPWARD
  /\ res = F(1, \H3f7741b5)
  /\ res2 = F(0, \H3e84aac0)

\* the call ended on a path that reports no error: tiny input, exceptional
\* value, the limit at an infinity, a boundary clamped to MAX_NORMAL or
\* MIN_SUBNORMAL, or the general path
QuietPath ==
  \/ path \in {"tiny", "zero", "negzero", "small", "except", "general",
               "large_negative"}
  \/ (path = "inf" /\ last.fn \in ExpFns)
  \/ (path \in {"overflow", "underflow"} /\ res \in {MAX_NORMAL, MIN_SUBNORMAL})

\* C12: a call that ends on a tiny, exceptional, infinite-limit, clamped or
\* general path leaves errno as it was; errno is written only with ERANGE on
\* the overflow/underflow branches and with EDOM on sincosf's infinite-input
\* branch, never with 0, and no call changes the rounding mode.
C12_ErrnoFrame ==
  last.fn \in MathFns =>
    /\ QuietPath => ErrnoKept
    /\ last.out.err \in {0, ERANGE, EDOM}
    /\ last.out.err = 0 => errno = last.errnoBefore
    /\ last.out.err = ERANGE =>
         /\ last.fn \in ExpFns
         /\ path \in {"overflow", "underflow"}
         /\ errno = ERANGE
    /\ last.out.err = EDOM =>
         /\ last.fn = "sincosf"
         /\ is_inf(last.x)
         /\ errno = EDOM
    /\ round = last.round

\* a general-path call made with errno = ERANGE left over and a directed
\* rounding mode: both are found as they were
C12_Witness ==
  /\ last.fn = "exp2f"
  /\ last.x = F(0, \H3f800000)
  /\ path = "general"
  /\ last.errnoBefore = ERANGE
  /\ errno = ERANGE
  /\ last.round = FE_DOWNWARD
  /\ round = FE_DOWNWARD

\* C16: for x = -infinity expf and exp2f return +0.0 and both expm1f return
\* -1.0; for x = +infinity all of them return +infinity; the result is the
\* same under every rounding mode (never MAX_NORMAL, MIN_SUBNORMAL or
\* -1 + 2^-24) and errno is not written.
C16_InfiniteLimits ==
  (last.fn \in ExpFns /\ is_inf(last.x)) =>
    /\ res = (IF last.x.s = 0 THEN PosInf
              ELSE IF last.fn \in {"expf", "exp2f"} THEN PosZero ELSE NegOne)
    /\ path = "inf"
    /\ ErrnoKept
    /\ ~last.out.inv

\* expm1f(-infinity) under FE_UPWARD, the mode in which finite large negative
\* inputs give -1 + 2^-24, called with an errno left over
C16_Witness ==
  /\ last.fn = "expm1f_part_005"
  /\ last.x = F(1, \H7f800000)
  /\ last.round = FE_UPWARD
  /\ last.errnoBefore = ERANGE
  /\ errno = ERANGE
  /\ res = NegOne

\* the call held repeats the remembered one: same entry point, same input
\* bits, same rounding mode
SamePair ==
  /\ prev # NoPair
  /\ last.fn = prev.fn
  /\ last.x = prev.x
  /\ last.round = prev.round

MirrorPair ==
  /\ prev.fn = "sincosf"
  /\ last.fn = "sincosf"
  /\ last.x = Neg(prev.x)
  /\ ~is_nan(last.x)

OppositeMode(r) ==
  CASE r = FE_UPWARD -> FE_DOWNWARD
    [] r = FE_DOWNWARD -> FE_UPWARD
    [] OTHER -> r

C11_ThreadLocalState ==
  \A t \in Threads :
    tcall[t].pc = "returned" =>
      /\ tcall[t].out = (IF tcall[t].fn = "expf"
                         THEN expf(tcall[t].x, tround[t])
                         ELSE sincosf(tcall[t].x, tround[t], nanPick))
      /\ terrno[t] = (IF tcall[t].out.err # 0 THEN tcall[t].out.err
                      ELSE tcall[t].errnoBefore)

\* C11, the frame of one step: a step that changes the errno of one thread
\* is a step of that thread: the other thread's call does not move in it.
C11_ErrnoWrittenByOwner ==
  [][\A t \in Threads :
       terrno'[t] # terrno[t] =>
         \A u \in Threads \ {t} : tcall'[u] = tcall[u]]_vars

C15_RangeReduction ==
  red.fn # "none" =>
    /\ red.y = red.x_hi * Unit + red.xd
    /\ -Half <= red.xd
    /\ red.xd < Half

C19_SyscallResultMapping ==
  sys.fn \in {"pwrite", "fchdir", "madvise", "fchmod"} =>
    IF sys.raw < 0
    THEN /\ sys.ret = -1
         /\ errno = -sys.raw
    ELSE /\ sys.ret = (IF sys.fn = "pwrite" THEN sys.raw ELSE 0)
         /\ sys.err = 0
         /\ errno = sys.errnoBefore

\* madvise failing with ENOMEM after errno was cleared, as in the test
\* Error_BadPtr
C19_Witness ==
  /\ sys.fn = "madvise"
  /\ sys.raw = -12
  /\ sys.ret = -1
  /\ sys.errnoBefore = 0
  /\ errno = 12

\* a successful pwrite of 8 bytes with an errno left over from a failure
C19_WitnessSuccess ==
  /\ sys.fn = "pwrite"
  /\ sys.raw = 8
  /\ sys.ret = 8
  /\ sys.errnoBefore = 9
  /\ errno = 9

\* C20: putc(c, stream) returns the character written, c converted to
\* unsigned char and back to int, when the one-byte write succeeds, and
\* returns EOF exactly when the stream write did not write 1 byte.
C20_PutcReturn ==
  put.fn = "putc" =>
    /\ put.written = 1 => put.ret = ToUChar(put.c)
    /\ put.ret = EOF <=> put.written # 1

----------------------------------------------------------------------------
(* fgets *)

\* the calls of fgets that have passed the count test and taken the lock
FgetsIn(t, pcs) == fg[t].pc \in pcs /\ fg[t].count >= 1

\* the call of thread t has stored nothing at str[k] or beyond
NothingFrom(t, k) ==
  \A j \in k..(MaxCount + 1) : fg[t].str[j] = Unwritten

\* C21: fgets returns nullptr, having written no terminating null byte,
\* exactly when count < 1, or the stream's error indicator is set after the
\* read loop, or no byte was stored and the stream's end-of-file indicator is
\* set; otherwise it writes '\0' at str[i] and returns str.
C21_FgetsNullExactly ==
  \A t \in FgetsThreads :
    /\ FgetsIn(t, {"unlock"}) =>
         /\ fg[t].has_error = strm.err
         /\ fg[t].has_eof = strm.eof
    /\ fg[t].pc = "done" =>
         /\ fg[t].ret = "nullptr" <=>
              \/ fg[t].count < 1
              \/ fg[t].has_error
              \/ fg[t].i = 0 /\ fg[t].has_eof
         /\ fg[t].ret = "nullptr" => NothingFrom(t, fg[t].i)
         /\ fg[t].ret # "nullptr" =>
              /\ fg[t].ret = "str"
              /\ fg[t].str[fg[t].i] = 0

\* a call that stored a byte and then met a failing read returned nullptr,
\* its byte left without a terminating null byte
C21_Witness ==
  \E t \in FgetsThreads :
    /\ fg[t].pc = "done" /\ fg[t].ret = "nullptr"
    /\ fg[t].i > 0 /\ fg[t].has_error /\ ~fg[t].has_eof
    /\ fg[t].str[fg[t].i] = Unwritten

\* C22: for count >= 1, fgets stores in str[0..i-1] the next i bytes of the
\* stream in order, i <= count - 1; it stops right after the first '\n'
\* (which it stores), or when a one-byte read answers other than 1, or after
\* count - 1 bytes; it consumes exactly the bytes it stores, writes at no
\* index >= count, and makes at most count - 1 reads.
C22_FgetsStores ==
  \A t \in FgetsThreads :
    FgetsIn(t, {"loop", "sample", "unlock", "done"}) =>
      LET call == fg[t]
      IN /\ call.i <= call.count - 1
         /\ \A k \in 0..(call.i - 1) :
              call.str[k] = strm.data[call.start + k + 1]
         /\ \A k \in 0..(call.i - 2) : call.str[k] # NEWLINE
         /\ NothingFrom(t, call.count)
         /\ call.reads <= call.count - 1
         /\ call.pc # "done" => strm.pos = call.start + call.i
         /\ call.pc # "loop" =>
              \/ call.i > 0 /\ call.str[call.i - 1] = NEWLINE
              \/ call.reads = call.i + 1
              \/ call.i = call.count - 1

\* a call with room for more returned the line that ends at the first '\n'
C22_Witness ==
  \E t \in FgetsThreads :
    /\ fg[t].pc = "done" /\ fg[t].ret = "str"
    /\ fg[t].i = 1 /\ fg[t].i < fg[t].count - 1
    /\ fg[t].str[0] = NEWLINE
    /\ fg[t].reads = 1
    /\ strm.pos < Len(strm.data)

\* C23: a call of fgets with count >= 1 takes the stream's lock once, before
\* its first read, and releases it once, after it has sampled the error and
\* end-of-file indicators, on every path; each call of read_unlocked,
\* error_unlocked and iseof_unlocked is made while the caller holds the lock;
\* a call with count < 1 returns without touching the lock or the stream.
C23_FgetsLockDiscipline ==
  \A t \in FgetsThreads :
    /\ fg[t].held
    /\ fg[t].pc = "done" /\ fg[t].count < 1 =>
         fg[t].locks = 0 /\ fg[t].unlocks = 0 /\ fg[t].reads = 0
    /\ fg[t].pc = "lock" =>
         fg[t].locks = 0 /\ fg[t].unlocks = 0 /\ fg[t].reads = 0
    /\ FgetsIn(t, {"loop", "sample", "unlock"}) =>
         fg[t].locks = 1 /\ fg[t].unlocks = 0 /\ strm.owner = t
    /\ FgetsIn(t, {"done"}) =>
         fg[t].locks = 1 /\ fg[t].unlocks = 1 /\ strm.owner # t

\* a call has returned nullptr after a failed read and released the lock,
\* which the other thread's call, waiting until then, now holds
C23_Witness ==
  \E t, u \in FgetsThreads :
    /\ fg[t].pc = "done" /\ fg[t].ret = "nullptr" /\ fg[t].reads > 0
    /\ fg[t].unlocks = 1
    /\ fg[u].pc = "loop" /\ strm.owner = u /\ fg[u].start = strm.pos

\* C24: when two threads call fgets on one stream, the bytes each call
\* stores are a contiguous run of the stream, and the error and end-of-file
\* indicators on which a call bases its return value are those its own
\* reads left.
C24_FgetsCallsIsolated ==
  \A t \in FgetsThreads :
    FgetsIn(t, {"unlock", "done"}) =>
      /\ \A k \in 0..(fg[t].i - 1) :
           fg[t].str[k] = strm.data[fg[t].start + k + 1]
      /\ fg[t].has_error = fg[t].own_error
      /\ fg[t].has_eof = fg[t].own_eof

----------------------------------------------------------------------------
(* add_with_carry, sub_with_borrow *)

\* C27: with a carry or borrow input of 0 or 1, the generic add_with_carry
\* returns sum = (a + b + carry_in) mod 2^w and carry = 1 exactly when
\* a + b + carry_in >= 2^w, and the generic sub_with_borrow returns
\* diff = (a - b - borrow_in) mod 2^w and borrow = 1 exactly when
\* a < b + borrow_in.
C27_CarryAndBorrow ==
  LET m == 2 ^ awc.w
  IN /\ awc.fn = "add_with_carry" =>
          /\ awc.res = (awc.a + awc.b + awc.c_in) % m
          /\ awc.c_out = 1 <=> awc.a + awc.b + awc.c_in >= m
          /\ awc.c_out \in {0, 1}
     /\ awc.fn = "sub_with_borrow" =>
          /\ awc.res = (awc.a - awc.b - awc.c_in) % m
          /\ awc.c_out = 1 <=> awc.a < awc.b + awc.c_in
          /\ awc.c_out \in {0, 1}

\* the carry comes out of the addition of the carry input alone: a is the
\* largest value of T, b is 0 and the carry input is 1
C27_Witness ==
  /\ awc.fn = "add_with_carry"
  /\ awc.a = 2 ^ awc.w - 1 /\ awc.b = 0 /\ awc.c_in = 1
  /\ awc.res = 0 /\ awc.c_out = 1

----------------------------------------------------------------------------
(* IntegerToString *)

\* the characters of the view returned
ViewText == SubSeq(its.out.buffer.cells, its.out.off + 1,
                   its.out.off + its.out.len)

\* C25: convert<BASE>(val, buffer) returns an empty optional without writing
\* when buffer.size() < bufsize<BASE, T>(); otherwise it writes only inside
\* the buffer: the string is no longer than bufsize<BASE, T>(), '-'
\* included, no write goes below index 0, and the view returned is the
\* right-aligned suffix of the buffer.
C25_ConvertStaysInBuffer ==
  its.fn = "convert" =>
    LET out == its.out
        cells == out.buffer.cells
    IN /\ Len(cells) = its.size
       /\ ~out.buffer.oob
       /\ its.size < bufsize(its.BASE, its.T) =>
            ~out.some /\ out.buffer = NewBuffer(its.size)
       /\ out.some =>
            /\ its.size >= bufsize(its.BASE, its.T)
            /\ out.len >= 1
            /\ out.len <= bufsize(its.BASE, its.T)
            /\ out.off >= 0
            /\ out.off + out.len = its.size
            /\ \A k \in 1..its.size :
                 (cells[k] = Unwritten) <=> (k <= out.off)

\* the smallest value of a signed T in base 2 fills a buffer of exactly
\* bufsize<2, T>() cells, the '-' in cell 0
C25_Witness ==
  /\ its.fn = "convert" /\ its.BASE = 2 /\ its.T.signed
  /\ its.size = bufsize(its.BASE, its.T)
  /\ its.out.some /\ its.out.off = 0
  /\ its.out.buffer.cells[1] = 45

\* the digit a character stands for, -1 for a character that is no digit
DigitOf(ch, lowercase) ==
  IF ch \in 48..57 THEN ch - 48
  ELSE IF lowercase /\ ch \in 97..122 THEN ch - 97 + 10
  ELSE IF ~lowercase /\ ch \in 65..90 THEN ch - 65 + 10
  ELSE -1

\* the number a string of digits denotes in a base, two digits at a time,
\* and whether it passes 64 bits
RECURSIVE ParseDigits(_, _, _)
ParseDigits(digits, base, lowercase) ==
  LET n == Len(digits)
  IN IF n = 0 THEN [v |-> <<0, 0, 0, 0>>, over |-> FALSE]
     ELSE IF n = 1
     THEN [v |-> <<0, 0, 0, DigitOf(digits[1], lowercase)>>, over |-> FALSE]
     ELSE LET front == ParseDigits(SubSeq(digits, 1, n - 2), base, lowercase)
          IN IF front.over THEN front
             ELSE LET next == MulAdd(front.v, base * base,
                                     DigitOf(digits[n - 1], lowercase) * base
                                     + DigitOf(digits[n], lowercase))
                  IN [v |-> next.v, over |-> next.c # 0]

\* C26: the string convert<BASE> returns for a value of a signed or
\* unsigned type, 0 and the smallest value of a signed type included, is
\* the canonical representation of val in base BASE: '0' for zero,
\* otherwise no leading zero, one leading '-' exactly when val < 0, digits
\* '0'-'9' then 'a'.. (or 'A'.. when lowercase is false), and parsing it
\* back in base BASE yields val.
C26_CanonicalString ==
  its.fn = "convert" /\ its.size >= bufsize(its.BASE, its.T) =>
    /\ its.out.some
    /\ LET str == ViewText
           negative == its.T.signed /\ IsNegative(its.val)
           number == IF str # <<>> /\ str[1] = 45 THEN Tail(str) ELSE str
           parsed == ParseDigits(number, its.BASE, its.lowercase)
       IN /\ number # <<>>
          /\ (str[1] = 45) <=> negative
          /\ \A k \in 1..Len(number) :
               DigitOf(number[k], its.lowercase) \in 0..(its.BASE - 1)
          /\ IF IsZero(its.val) THEN str = <<48>> ELSE number[1] # 48
          /\ ~parsed.over
          /\ its.val = IF negative THEN Neg64(parsed.v) ELSE parsed.v

----------------------------------------------------------------------------
(* the two implementations of expm1f *)

\* what the other implementation of expm1f delivers for the call made
OtherExpm1f ==
  IF last.fn = "expm1f" THEN expm1f_part_005(last.x, last.round)
  ELSE expm1f(last.x, last.round)

\* C28: the two implementations of expm1f take the same class of path for
\* every input other than 0xbdc1c6cb and 0x3e35bec5, and on the
\* large-negative, overflow, infinite, NaN and negative-zero paths they
\* return the same result and write errno alike under every rounding mode;
\* a large-negative finite x gives -1.0f under FE_TONEAREST and FE_DOWNWARD
\* and -0x1.fffffep-1f under FE_UPWARD and FE_TOWARDZERO, errno untouched.
C28_Expm1fImplementationsAgree ==
  last.fn \in {"expm1f", "expm1f_part_005"} =>
    /\ ~UEq(last.x, 1, \H3dc1c6cb) /\ ~UEq(last.x, 0, \H3e35bec5) =>
         path = OtherExpm1f.path
    /\ path \in {"large_negative", "overflow", "inf", "nan", "negzero"} =>
         /\ res = OtherExpm1f.res
         /\ last.out.err = OtherExpm1f.err
         /\ last.out.inv = OtherExpm1f.inv
    /\ path = "large_negative" =>
         /\ IsFinite(last.x)
         /\ res = IF last.round \in {FE_UPWARD, FE_TOWARDZERO}
                  THEN F(1, \H3f7fffff) ELSE NegOne
         /\ ErrnoKept

\* the implementation of part_005 was called with -0.0f and returned it from
\* its negative-zero path
C28_Witness ==
  /\ last.fn = "expm1f_part_005"
  /\ last.x = NegZero
  /\ path = "negzero" /\ res = NegZero
  /\ OtherExpm1f.path = "negzero"

----------------------------------------------------------------------------
(* table lookups *)

\* C29: for an input that reaches the general path the lookups are in
\* range: in expf and both expm1f the EXP_M1 index (x_hi >> 7 after 104 << 7
\* is added) is in 0..193 and the EXP_M2 index in 0..127; in exp2f the EXP_M
\* index is in 0..63 and e_hi in 1..2046; no NaN, infinity or finite input
\* beyond the overflow and underflow thresholds reaches these computations.
C29_LookupsInRange ==
  idx.general =>
    /\ IsFinite(idx.x)
    /\ idx.fn \in {"expf", "expm1f", "expm1f_part_005"} =>
         idx.hi \in 0..193 /\ idx.mid \in 0..127
    /\ idx.fn = "exp2f" => idx.mid \in 0..63 /\ idx.hi \in 1..2046
    /\ idx.fn = "expf" =>
         idx.x.m < (IF get_sign(idx.x) THEN \H42cff1b5 ELSE \H42b20000)
    /\ idx.fn = "exp2f" =>
         idx.x.m < (IF get_sign(idx.x) THEN \H43160000 ELSE \H43000000)
    /\ idx.fn \in {"expm1f", "expm1f_part_005"} =>
         idx.x.m < (IF get_sign(idx.x) THEN \H418aa123 ELSE \H42b20000)

\* expf at the most negative input of its general path looks up EXP_M1[0]
C29_Witness ==
  /\ idx.fn = "expf" /\ idx.general
  /\ idx.x = F(1, \H42cff1b4)
  /\ idx.x_hi = -13308
  /\ idx.hi = 0 /\ idx.mid = 4

----------------------------------------------------------------------------
(* the exceptional values of sincosf under the four rounding modes *)

\* what sincosf stores for the input of the call made, under rounding mode r
ExceptUnder(r) == sincosf(last.x, r, nanPick)

\* hi is the float next above lo
OneUlpAbove(lo, hi) ==
  IF lo.s = 0 THEN hi = F(0, lo.m + 1)
  ELSE lo.m > 0 /\ hi = F(1, lo.m - 1)

\* the one of a and b that is nearer to zero
SmallerMagnitude(a, b) == IF a.m <= b.m THEN a ELSE b

\* the value v stored under the mode of the call, against the values up and
\* down stored under FE_UPWARD and FE_DOWNWARD
RoundingConsistent(v, up, down) ==
  /\ OneUlpAbove(down, up)
  /\ last.round = FE_UPWARD => v = up
  /\ last.round = FE_DOWNWARD => v = down
  /\ last.round = FE_TOWARDZERO => v = SmallerMagnitude(up, down)
  /\ last.round = FE_TONEAREST => v \in {up, down}

\* C30: for each of the ten exceptional inputs of sincosf, each sign of x
\* and each of sin and cos, the FE_UPWARD result is one ULP above the
\* FE_DOWNWARD result, the FE_TOWARDZERO result is the one of the two with
\* the smaller magnitude, and the FE_TONEAREST result is one of the two.
C30_ExceptionalRoundingConsistent ==
  last.fn = "sincosf" /\ path = "except" =>
    /\ RoundingConsistent(res, ExceptUnder(FE_UPWARD).res,
                          ExceptUnder(FE_DOWNWARD).res)
    /\ RoundingConsistent(res2, ExceptUnder(FE_UPWARD).res2,
                          ExceptUnder(FE_DOWNWARD).res2)

\* sincosf(-0x1.33333p13) under FE_UPWARD: the table's sin value is
\* negative, the increment taken is the FE_DOWNWARD one and the sign is
\* flipped, so the sin stored is one ULP above the FE_TOWARDZERO value
C30_Witness ==
  /\ last.fn = "sincosf" /\ path = "except"
  /\ last.x = F(1, \H46199998) /\ last.round = FE_UPWARD
  /\ res = F(0, \H3eb1fa5e)
  /\ ExceptUnder(FE_TOWARDZERO).res = F(0, \H3eb1fa5d)

====
